---- MODULE Spec2Model ----
(***************************************************************************)
(* Geobridge (src/src/App.js): region classification, boundary extraction, *)
(* height normalisation and the dataset / height-filter selection state.   *)
(*                                                                         *)
(* Text that the code takes apart (continent and subregion names, region   *)
(* keys) is a sequence of one-character strings, so that toLowerCase and   *)
(* the regular-expression replace are computed character by character.     *)
(* Text that is only compared (country codes, names, dataset ids) is a     *)
(* TLA+ string.  JavaScript numbers are exact rationals here; the rounding *)
(* of IEEE doubles is not modelled.                                        *)
(***************************************************************************)
EXTENDS Integers, Sequences, FiniteSets, TLC

VARIABLES
  countries,             \* GlobeWrapper: countries.features
  useDataDrivenRegions,  \* App: classification mode flag
  regionBoundaries,      \* GlobeWrapper: list of BoundarySegments
  selectedDatasets,      \* App: ids of the selected datasets
  heightFilter,          \* GlobeWrapper: active dataset id or "none"
  heightStats,           \* GlobeWrapper: memoised HeightStatistics
  statsGetter,           \* id of the HEIGHT_GETTERS entry the memo last read
  fetchPending,          \* GlobeWrapper: the polygons.geojson fetch is in flight
  globalDataCache,       \* module-level cache of the fetched datasets
  input,                 \* argument of the pure function under study
  output,                \* its result
  hoverD,                \* GlobeWrapper: index of the hovered elevated feature, 0 for null
  mounted,               \* the view is mounted (the load effect's flag)
  dataLoading,           \* App: dataLoading
  dataStatus,            \* App: dataStatus
  clock,                 \* Date.now(), in units of ten minutes
  init,                  \* the initializeGlobalData call in flight, if any
  game,                  \* App: gamePhase, currentPlayer, playerCountries, selectedCountries
  alliances              \* GlobeWrapper: alliance state, display state and pending timers per player

vars == <<countries, useDataDrivenRegions, regionBoundaries, selectedDatasets,
          heightFilter, heightStats, statsGetter, fetchPending, globalDataCache,
          input, output, hoverD, mounted, dataLoading, dataStatus, clock, init,
          game, alliances>>

\* State outside the feature, region and height data
viewVars == <<hoverD, mounted, dataLoading, dataStatus, clock, init, game, alliances>>

----------------------------------------------------------------------------
(* Bounds *)

MaxStrLen == 2      \* length of the generated SUBREGION texts
MaxRingLen == 3     \* number of points of a generated ring
MaxCoord == 2       \* largest generated longitude, in 0.005 degree steps
MaxValue == 4       \* largest generated dataset value
MaxFeatures == 5    \* number of features of a generated valued collection
MaxClickEntry == 6  \* catalogue entries offered to the selection handlers
MaxStatLen == 5     \* length of a generated list of fractional values
MaxSortLen == 4     \* number of points handed to sortBoundaryPoints
MaxBulk == 26       \* copies of the smallest value in a generated distribution
MaxFew == 2         \* copies of each other value in a generated distribution
MaxSmoothed == 110  \* largest generated post-exponent value, in hundredths
MaxGameCodes == 3   \* country codes among the features offered to the game
MaxTimers == 2      \* pending display timers of one player
MaxClock == 13      \* last clock value
MaxFailures == 1    \* requests that fail during one initialisation
MaxAccessorFeatures == 3  \* features of a collection with failing accessors

----------------------------------------------------------------------------
(* Generic helpers *)

Range(s) == {s[i] : i \in DOMAIN s}

SeqsUpTo(S, n) == UNION {[1..k -> S] : k \in 0..n}

MaxOf(S) == CHOOSE x \in S : \A y \in S : y <= x

\* JavaScript undefined for a text field that is only compared.
Undefined == "undefined"

\* JavaScript truthiness of such a field: undefined and '' are falsy.
Truthy(v) == v # Undefined /\ v # ""

\* a || b on such fields
OrElse(a, b) == IF Truthy(a) THEN a ELSE b

----------------------------------------------------------------------------
(* Text as character sequences *)

UpperCase == <<"A","B","C","D","E","F","G","H","I","J","K","L","M",
               "N","O","P","Q","R","S","T","U","V","W","X","Y","Z">>

LowerCase == <<"a","b","c","d","e","f","g","h","i","j","k","l","m",
               "n","o","p","q","r","s","t","u","v","w","x","y","z">>

Digits == {"0","1","2","3","4","5","6","7","8","9"}

\* String.prototype.toLowerCase, one character
LowerChar(c) ==
  IF \E i \in DOMAIN UpperCase : UpperCase[i] = c
  THEN LowerCase[CHOOSE i \in DOMAIN UpperCase : UpperCase[i] = c]
  ELSE c

toLowerCase(s) == [i \in DOMAIN s |-> LowerChar(s[i])]

\* The class \s alone, without the ampersand
SlugClass_WhitespaceOnly == {" ", "\t", "\n"}

\* The character class [\s&] of the slug expression.
SlugClass == {" ", "\t", "\n", "&"}

\* s.replace(/[\s&]+/g, '_'): a left-to-right scan; each maximal run of
\* class characters is consumed by one match and replaced by one '_'.
RECURSIVE replaceFrom(_, _)
replaceFrom(s, i) ==
  IF i > Len(s) THEN <<>>
  ELSE IF s[i] \in SlugClass
       THEN LET RECURSIVE runEnd(_)
                runEnd(j) == IF j <= Len(s) /\ s[j] \in SlugClass
                             THEN runEnd(j + 1) ELSE j
            IN <<"_">> \o replaceFrom(s, runEnd(i))
       ELSE <<s[i]>> \o replaceFrom(s, i + 1)

replace(s) == replaceFrom(s, 1)

\* String literals of the code
Europe == <<"E","u","r","o","p","e">>
Africa == <<"A","f","r","i","c","a">>
Asia == <<"A","s","i","a">>
NorthAmerica == <<"N","o","r","t","h"," ","A","m","e","r","i","c","a">>
SouthAmerica == <<"S","o","u","t","h"," ","A","m","e","r","i","c","a">>
Oceania == <<"O","c","e","a","n","i","a">>
Unknown == <<"U","n","k","n","o","w","n">>
NorthernAmerica == <<"N","o","r","t","h","e","r","n"," ","A","m","e","r","i","c","a">>
north_america == <<"n","o","r","t","h","_","a","m","e","r","i","c","a">>
central_america_caribbean == <<"c","e","n","t","r","a","l","_","a","m","e","r","i","c","a","_","c","a","r","i","b","b","e","a","n">>
south_america == <<"s","o","u","t","h","_","a","m","e","r","i","c","a">>
unknown == <<"u","n","k","n","o","w","n">>
europe_ == <<"e","u","r","o","p","e","_">>
africa_ == <<"a","f","r","i","c","a","_">>
asia_ == <<"a","s","i","a","_">>
oceania_ == <<"o","c","e","a","n","i","a","_">>

----------------------------------------------------------------------------
(* Static tables *)

REGIONS ==
  <<
     [name |-> <<"n","o","r","t","h","_","a","m","e","r","i","c","a">>,
      countries |-> <<"CA", "US", "MX">>],
     [name |-> <<"c","e","n","t","r","a","l","_","a","m","e","r","i","c","a","_","c","a","r","i","b","b","e","a","n">>,
      countries |-> <<"GT", "BZ", "HN", "SV", "NI", "CR", "PA", "CU", "JM", "HT", "DO", "KN", "AG", "DM", "LC", "BB", "VC", "GD", "BS">>],
     [name |-> <<"s","o","u","t","h","_","a","m","e","r","i","c","a">>,
      countries |-> <<"AR", "BR", "BO", "CL", "PY", "UY", "CO", "EC", "VE", "GY", "SR", "PE">>],
     [name |-> <<"s","o","u","t","h","w","e","s","t","_","e","u","r","o","p","e">>,
      countries |-> <<"ES", "PT", "AD">>],
     [name |-> <<"s","o","u","t","h","_","e","u","r","o","p","e">>,
      countries |-> <<"IT", "GR", "MT", "SM">>],
     [name |-> <<"c","e","n","t","r","a","l","_","e","u","r","o","p","e">>,
      countries |-> <<"DE", "AT", "LI", "CH", "PL", "HU", "SK", "CZ", "SI">>],
     [name |-> <<"w","e","s","t","_","e","u","r","o","p","e">>,
      countries |-> <<"GB", "IE", "NL", "BE", "LU", "MC", "FR">>],
     [name |-> <<"n","o","r","t","h","_","e","u","r","o","p","e">>,
      countries |-> <<"DK", "IS", "NO", "SE", "FI">>],
     [name |-> <<"s","o","u","t","h","e","a","s","t","_","e","u","r","o","p","e">>,
      countries |-> <<"AL", "BA", "HR", "MK", "ME", "RS", "RO", "BG", "XK">>],
     [name |-> <<"e","a","s","t","_","e","u","r","o","p","e">>,
      countries |-> <<"RU", "EE", "LV", "LT", "BY", "UA", "MD">>],
     [name |-> <<"n","o","r","t","h","_","a","f","r","i","c","a">>,
      countries |-> <<"EG", "LY", "DZ", "MA", "TN">>],
     [name |-> <<"c","e","n","t","r","a","l","_","a","f","r","i","c","a">>,
      countries |-> <<"TD", "CF", "CM", "GQ", "GA", "CG", "CD", "AO">>],
     [name |-> <<"e","a","s","t","_","a","f","r","i","c","a">>,
      countries |-> <<"SD", "ER", "DJ", "SO", "ET", "SS", "KE", "UG", "TZ", "RW", "BI", "ZM", "MW", "MZ", "ZW", "KM", "MG">>],
     [name |-> <<"w","e","s","t","_","a","f","r","i","c","a">>,
      countries |-> <<"EH", "MR", "ML", "SN", "GM", "GW", "GN", "SL", "LR", "CI", "GH", "TG", "BJ", "BF", "NE", "NG">>],
     [name |-> <<"s","o","u","t","h","_","a","f","r","i","c","a">>,
      countries |-> <<"NA", "BW", "ZA", "SZ", "LS">>],
     [name |-> <<"m","i","d","d","l","e","_","e","a","s","t">>,
      countries |-> <<"GE", "CY", "TR", "SY", "LB", "AZ", "AM", "IR", "IQ", "IL", "JO", "SA", "YE", "OM", "BH", "QA", "AE", "KW", "PS">>],
     [name |-> <<"i","n","d","i","a","n","_","s","u","b","c","o","n","t","i","n","e","n","t">>,
      countries |-> <<"IN", "AF", "PK", "NP", "BD", "BT", "LK">>],
     [name |-> <<"c","e","n","t","r","a","l","_","a","s","i","a">>,
      countries |-> <<"KZ", "UZ", "TM", "TJ", "KG">>],
     [name |-> <<"e","a","s","t","e","r","n","_","a","s","i","a">>,
      countries |-> <<"CN", "KP", "KR", "JP", "MM", "TH", "KH", "VN", "LA", "ID", "PH", "PG", "MY", "CN-TW", "MN">>],
     [name |-> <<"o","c","e","a","n","i","a">>,
      countries |-> <<"AU", "NZ", "FJ", "VU", "SB", "PW", "NR", "MH", "WS", "TO", "KI">>],
     [name |-> <<"a","n","t","a","r","c","t","i","c","a">>,
      countries |-> <<"AQ">>]
  >>

\* A reduce that stops one entry short of the end of REGIONS
REGION_MAPPING_LastEntryDropped(code) ==
  LET hits == {i \in 1..(Len(REGIONS) - 1) : code \in Range(REGIONS[i].countries)}
  IN IF hits = {} THEN <<>> ELSE REGIONS[MaxOf(hits)].name

\* REGION_MAPPING[code]: the reduce assigns acc[country] = region entry by
\* entry, so the last entry listing a code wins; <<>> stands for undefined.
REGION_MAPPING(code) ==
  LET hits == {i \in DOMAIN REGIONS : code \in Range(REGIONS[i].countries)}
  IN IF hits = {} THEN <<>> ELSE REGIONS[MaxOf(hits)].name

MANUAL_COUNTRY_MAPPING(name) ==
  CASE name = "Norway" -> "NO"
    [] name = "France" -> "FR"
    [] name = "Kosovo" -> "XK"
    [] name = "Somaliland" -> "XS"
    [] name = "Northern Cyprus" -> "XN"
    [] OTHER -> Undefined

----------------------------------------------------------------------------
(* Features *)

\* country.properties?.X for a compared field (undefined without a bag)
Prop(country, field) ==
  IF country.hasProps THEN country.properties[field] ELSE Undefined

\* country.properties?.X for a text field; '' and undefined are both <<>>,
\* the code reads these fields only through `|| default`.
TextProp(country, field) ==
  IF country.hasProps THEN country.properties[field] ELSE <<>>

\* Only the sentinel '-99' is rejected
getCountryCode_MarkerAccepted(country) ==
  LET iso2 == Prop(country, "ISO_A2")
      admin == Prop(country, "ADMIN")
      name == Prop(country, "NAME")
  IN IF Truthy(iso2) /\ iso2 # "-99"
     THEN iso2
     ELSE OrElse(MANUAL_COUNTRY_MAPPING(admin),
                 OrElse(MANUAL_COUNTRY_MAPPING(name), iso2))

getCountryCode(country) ==
  LET iso2 == Prop(country, "ISO_A2")
      admin == Prop(country, "ADMIN")
      name == Prop(country, "NAME")
  IN IF Truthy(iso2) /\ iso2 # "-99" /\ iso2 # "n/a"
     THEN iso2
     ELSE OrElse(MANUAL_COUNTRY_MAPPING(admin),
                 OrElse(MANUAL_COUNTRY_MAPPING(name), iso2))

\* The operand used as it is, with no default
OrUnknown_NoDefault(raw) == raw

\* raw || 'Unknown' on a text field
OrUnknown(raw) == IF raw # <<>> THEN raw ELSE Unknown

\* The derived key of createDataDrivenRegions and getCountryRegion (the two
\* copies are the same expression).
DerivedRegionKey(continentRaw, subregionRaw, regionUnRaw) ==
  LET continent == OrUnknown(continentRaw)
      subregion == IF subregionRaw # <<>> THEN subregionRaw
                   ELSE OrUnknown(regionUnRaw)
  IN CASE continent = Europe -> replace(toLowerCase(europe_ \o subregion))
       [] continent = Africa -> replace(toLowerCase(africa_ \o subregion))
       [] continent = Asia -> replace(toLowerCase(asia_ \o subregion))
       [] continent = NorthAmerica ->
            IF subregion = NorthernAmerica THEN north_america
            ELSE central_america_caribbean
       [] continent = SouthAmerica -> south_america
       [] continent = Oceania -> replace(toLowerCase(oceania_ \o subregion))
       [] OTHER -> replace(toLowerCase(continent))

getCountryRegion(country, dataDriven) ==
  LET countryCode == getCountryCode(country)
  IN IF dataDriven
     THEN DerivedRegionKey(TextProp(country, "CONTINENT"),
                           TextProp(country, "SUBREGION"),
                           TextProp(country, "REGION_UN"))
     ELSE LET manualRegion == REGION_MAPPING(countryCode)
          IN IF manualRegion # <<>> THEN manualRegion ELSE unknown

----------------------------------------------------------------------------
(* Geometry.  A coordinate pair is <<longitude, latitude>> in units of     *)
(* 0.005 degrees, so the default tolerance 0.01 is 2 units.                *)

Tolerance == 2

\* Squared planar distance; Math.sqrt(d2) < t is d2 < t * t for t >= 0.
DistSq(p, q) == (p[1] - q[1]) * (p[1] - q[1]) + (p[2] - q[2]) * (p[2] - q[2])

Reverse(s) == [i \in DOMAIN s |-> s[Len(s) + 1 - i]]

\* @turf/boolean-clockwise: the sum over the edges of
\* (cur.x - prev.x) * (cur.y + prev.y) is positive.
RECURSIVE EdgeSum(_, _)
EdgeSum(ring, i) ==
  IF i > Len(ring) THEN 0
  ELSE (ring[i][1] - ring[i - 1][1]) * (ring[i][2] + ring[i - 1][2])
         + EdgeSum(ring, i + 1)

booleanClockwise(ring) == EdgeSum(ring, 2) > 0

\* rewind(collection, { reverse: true }) on one geometry: the outer ring of
\* every polygon is made clockwise and its holes counter-clockwise.
rewindPolygon(rings) ==
  [k \in DOMAIN rings |->
     IF k = 1
     THEN IF booleanClockwise(rings[k]) # TRUE THEN Reverse(rings[k]) ELSE rings[k]
     ELSE IF booleanClockwise(rings[k]) = TRUE THEN Reverse(rings[k]) ELSE rings[k]]

rewind(geometry) ==
  CASE geometry.type = "Polygon" ->
         [geometry EXCEPT !.coordinates = rewindPolygon(@)]
    [] geometry.type = "MultiPolygon" ->
         [geometry EXCEPT !.coordinates =
            [k \in DOMAIN @ |-> rewindPolygon(@[k])]]
    [] OTHER -> geometry

\* A later polygon replaces the current one when it has as many vertices
extractCoordinates_LaterOnTies(geometry) ==
  CASE geometry.type = "Polygon" -> geometry.coordinates[1]
    [] geometry.type = "MultiPolygon" ->
         LET polys == geometry.coordinates
             RECURSIVE largest(_, _)
             largest(k, best) ==
               IF k > Len(polys) THEN best
               ELSE IF Len(polys[k][1]) >= Len(polys[best][1])
                    THEN largest(k + 1, k)
                    ELSE largest(k + 1, best)
         IN polys[largest(1, 1)][1]
    [] OTHER -> <<>>

extractCoordinates(geometry) ==
  CASE geometry.type = "Polygon" -> geometry.coordinates[1]
    [] geometry.type = "MultiPolygon" ->
         LET polys == geometry.coordinates
             RECURSIVE largest(_, _)
             \* forEach keeps the earlier polygon unless a later one has
             \* strictly more outer-ring vertices
             largest(k, best) ==
               IF k > Len(polys) THEN best
               ELSE IF Len(polys[k][1]) > Len(polys[best][1])
                    THEN largest(k + 1, k)
                    ELSE largest(k + 1, best)
         IN polys[largest(1, 1)][1]
    [] OTHER -> <<>>

\* let minDistance = Infinity (no squared distance is negative)
Infinity == -1

\* The scan that replaces the closest point on equal distance too
closestIndexOf_LaterOnTies(lastPoint, remaining) ==
  LET RECURSIVE scan(_, _, _)
      scan(index, closestIndex, minDistance) ==
        IF index > Len(remaining) THEN closestIndex
        ELSE LET distance == DistSq(lastPoint, remaining[index])
             IN IF minDistance = Infinity \/ distance <= minDistance
                THEN scan(index + 1, index, distance)
                ELSE scan(index + 1, closestIndex, minDistance)
  IN scan(1, 1, Infinity)

\* remaining.forEach of sortBoundaryPoints: closestIndex starts at the
\* first index and moves only on distance < minDistance (the square root
\* keeps the order of the squared distances).
closestIndexOf(lastPoint, remaining) ==
  LET RECURSIVE scan(_, _, _)
      scan(index, closestIndex, minDistance) ==
        IF index > Len(remaining) THEN closestIndex
        ELSE LET distance == DistSq(lastPoint, remaining[index])
             IN IF minDistance = Infinity \/ distance < minDistance
                THEN scan(index + 1, index, distance)
                ELSE scan(index + 1, closestIndex, minDistance)
  IN scan(1, 1, Infinity)

sortBoundaryPoints(points) ==
  IF Len(points) <= 2 THEN points
  ELSE LET RECURSIVE chain(_, _)
           chain(sorted, remaining) ==
             IF Len(remaining) = 0 THEN sorted
             ELSE LET lastPoint == sorted[Len(sorted)]
                      closestIndex == closestIndexOf(lastPoint, remaining)
                  IN chain(Append(sorted, remaining[closestIndex]),
                           [k \in 1..(Len(remaining) - 1) |->
                              IF k < closestIndex THEN remaining[k]
                              ELSE remaining[k + 1]])
       IN chain(<<points[1]>>, Tail(points))

\* The scan without usedIndices: a ring-2 index can be matched again
matchSharedPoints_IndicesReused(coords1, coords2) ==
  LET RECURSIVE scan(_, _, _)
      scan(i1, i2, sharedPoints) ==
        IF i1 > Len(coords1) THEN sharedPoints
        ELSE IF i2 > Len(coords2) THEN scan(i1 + 1, 1, sharedPoints)
        ELSE IF DistSq(coords1[i1], coords2[i2]) < Tolerance * Tolerance
             THEN scan(i1, i2 + 1, Append(sharedPoints, coords1[i1]))
             ELSE scan(i1, i2 + 1, sharedPoints)
  IN scan(1, 1, <<>>)

\* The nested forEach of findSharedBoundary: every ring-1 point is compared
\* with every ring-2 index not yet in usedIndices, and is pushed once per
\* index it matches.
matchSharedPoints(coords1, coords2) ==
  LET RECURSIVE scan(_, _, _, _)
      scan(i1, i2, sharedPoints, usedIndices) ==
        IF i1 > Len(coords1) THEN sharedPoints
        ELSE IF i2 > Len(coords2) THEN scan(i1 + 1, 1, sharedPoints, usedIndices)
        ELSE IF i2 \in usedIndices THEN scan(i1, i2 + 1, sharedPoints, usedIndices)
        ELSE IF DistSq(coords1[i1], coords2[i2]) < Tolerance * Tolerance
             THEN scan(i1, i2 + 1, Append(sharedPoints, coords1[i1]),
                       usedIndices \cup {i2})
             ELSE scan(i1, i2 + 1, sharedPoints, usedIndices)
  IN scan(1, 1, <<>>, {})

findSharedBoundary(coords1, coords2) ==
  LET sharedPoints == matchSharedPoints(coords1, coords2)
  IN IF Len(sharedPoints) >= 2 THEN sortBoundaryPoints(sharedPoints)
     ELSE sharedPoints

\* A threshold of one shared point
emitsSegment_OnePointEnough(sharedPoints) == Len(sharedPoints) >= 1

\* if (sharedPoints.length >= 2) in both generators
emitsSegment(sharedPoints) == Len(sharedPoints) >= 2

\* Lexicographic order of the loop indices <<i, j, a, b>>
LexLess(s, t) ==
  \E k \in 1..4 : s[k] < t[k] /\ \A m \in 1..(k - 1) : s[m] = t[m]

\* The two nested loops shared by both generators: regionArray is the
\* ordered list of [name, features].  For i < j, feature a of entry i and
\* feature b of entry j, in loop order, a segment is pushed when the two
\* rings share at least 2 points; boundaries.length at that moment is the
\* number of segments pushed before.
pushBoundaries(regionArray, type) ==
  LET n == Len(regionArray)
      shared(t) ==
        findSharedBoundary(
          extractCoordinates(regionArray[t[1]].features[t[3]].geometry),
          extractCoordinates(regionArray[t[2]].features[t[4]].geometry))
      pushed ==
        {t \in UNION {UNION {{<<i, j, a, b>> :
                                 a \in DOMAIN regionArray[i].features,
                                 b \in DOMAIN regionArray[j].features} :
                               j \in (i + 1)..n} : i \in 1..n} :
           emitsSegment(shared(t))}
      nth(k) == CHOOSE t \in pushed :
                  Cardinality({u \in pushed : LexLess(u, t)}) = k - 1
  IN [k \in 1..Cardinality(pushed) |->
        LET t == nth(k)
            country1 == regionArray[t[1]].features[t[3]]
            country2 == regionArray[t[2]].features[t[4]]
        IN [coordinates |-> shared(t),
            regions |-> <<regionArray[t[1]].name, regionArray[t[2]].name>>,
            countries |-> <<getCountryCode(country1), getCountryCode(country2)>>,
            id |-> <<regionArray[t[1]].name, regionArray[t[2]].name, k - 1>>,
            type |-> type]]

createManualRegionBoundaries(cs) ==
  pushBoundaries(
    [k \in DOMAIN REGIONS |->
       [name |-> REGIONS[k].name,
        features |-> SelectSeq(cs, LAMBDA c :
                       getCountryCode(c) \in Range(REGIONS[k].countries))]],
    "manual_boundary")

\* createDataDrivenRegions: a Map from region key to the features with that
\* key; keys in order of first appearance, features in input order.
createDataDrivenRegions(cs) ==
  LET key(c) == DerivedRegionKey(c.properties.CONTINENT, c.properties.SUBREGION,
                                 c.properties.REGION_UN)
      firsts == {i \in DOMAIN cs : \A j \in 1..(i - 1) : key(cs[j]) # key(cs[i])}
      nth(k) == CHOOSE i \in firsts : Cardinality({j \in firsts : j < i}) = k - 1
  IN [k \in 1..Cardinality(firsts) |->
        [name |-> key(cs[nth(k)]),
         features |-> SelectSeq(cs, LAMBDA c : key(c) = key(cs[nth(k)]))]]

createDataDrivenRegionBoundaries(cs) ==
  pushBoundaries(createDataDrivenRegions(cs), "data_driven_boundary")

EXCLUDED_COUNTRIES ==
  {"MU", "JE", "GG", "IM", "FO", "AX", "PM", "CV", "GS", "MV", "IO", "MP", "FM",
   "SC", "NF", "ST", "SH", "BM", "TV", "AS", "NU", "CK", "PF", "PN", "WF", "TC",
   "KY", "AW", "CW", "VI", "VG", "AI", "MF", "SX", "BL", "MS", "HM", "TF", "GL",
   "XN", "-99"}

\* REGION_MAPPING[code] is truthy
HasRegion(f) == REGION_MAPPING(getCountryCode(f)) # <<>>

\* The .then of the load effect: both filters, then rewind.
loadedFeatures(features) ==
  LET filtered == SelectSeq(features, LAMBDA f :
                    getCountryCode(f) \notin EXCLUDED_COUNTRIES)
      withRegionsOnly == SelectSeq(filtered, HasRegion)
  IN [k \in DOMAIN withRegionsOnly |->
        [withRegionsOnly[k] EXCEPT !.geometry = rewind(@)]]

\* An effect that misses useDataDrivenRegions among its dependencies: it
\* computes the list once and keeps it afterwards.
boundaryEffect_ComputedOnce(features, dataDriven, old) ==
  IF Len(features) > 0 /\ Len(old) = 0
  THEN LET withRegionsOnly == SelectSeq(features, HasRegion)
       IN IF dataDriven THEN createDataDrivenRegionBoundaries(withRegionsOnly)
          ELSE createManualRegionBoundaries(withRegionsOnly)
  ELSE old

\* The boundary effect: runs after a render in which useDataDrivenRegions or
\* countries.features changed; with no feature loaded the list is kept.
boundaryEffect(features, dataDriven, old) ==
  IF Len(features) > 0
  THEN LET withRegionsOnly == SelectSeq(features, HasRegion)
       IN IF dataDriven THEN createDataDrivenRegionBoundaries(withRegionsOnly)
          ELSE createManualRegionBoundaries(withRegionsOnly)
  ELSE old

----------------------------------------------------------------------------
(* Dataset catalogue *)

\* The entries of the AVAILABLE_DATASETS object literal, in source order.
DATASET_ENTRIES ==
  <<
     [id |-> "gdp", category |-> "Built-in", unit |-> "B$", disabled |-> FALSE],
     [id |-> "population", category |-> "Built-in", unit |-> "M", disabled |-> FALSE],
     [id |-> "area", category |-> "Built-in", unit |-> "K km2", disabled |-> FALSE],
     [id |-> "neighbors", category |-> "Built-in", unit |-> "", disabled |-> FALSE],
     [id |-> "forest_area", category |-> "World Bank", unit |-> "%", disabled |-> FALSE],
     [id |-> "co2_emissions", category |-> "World Bank", unit |-> "t/capita", disabled |-> TRUE],
     [id |-> "urban_population", category |-> "World Bank", unit |-> "%", disabled |-> FALSE],
     [id |-> "internet_users", category |-> "World Bank", unit |-> "%", disabled |-> FALSE],
     [id |-> "education_expenditure", category |-> "World Bank", unit |-> "% GDP", disabled |-> TRUE],
     [id |-> "renewable_electricity", category |-> "World Bank", unit |-> "%", disabled |-> TRUE],
     [id |-> "life_expectancy", category |-> "World Bank", unit |-> "years", disabled |-> TRUE],
     [id |-> "gdp_growth", category |-> "World Bank", unit |-> "%", disabled |-> TRUE],
     [id |-> "unemployment", category |-> "World Bank", unit |-> "%", disabled |-> TRUE],
     [id |-> "exports_gdp", category |-> "World Bank", unit |-> "% GDP", disabled |-> TRUE],
     [id |-> "military_expenditure", category |-> "World Bank", unit |-> "% GDP", disabled |-> FALSE],
     [id |-> "population_density", category |-> "Calculated", unit |-> "people/km2", disabled |-> FALSE],
     [id |-> "gdp_per_capita", category |-> "Calculated", unit |-> "USD", disabled |-> FALSE],
     [id |-> "economic_complexity", category |-> "Economic", unit |-> "index", disabled |-> FALSE],
     [id |-> "digital_competitiveness", category |-> "Technology", unit |-> "score", disabled |-> FALSE],
     [id |-> "energy_security", category |-> "Energy", unit |-> "index", disabled |-> FALSE],
     [id |-> "corruption_index", category |-> "Governance", unit |-> "score", disabled |-> FALSE],
     [id |-> "innovation_index", category |-> "Innovation", unit |-> "score", disabled |-> FALSE],
     [id |-> "life_expectancy", category |-> "Our World in Data", unit |-> "years", disabled |-> FALSE],
     [id |-> "internet_usage", category |-> "Our World in Data", unit |-> "%", disabled |-> FALSE],
     [id |-> "coffee_production", category |-> "FAOSTAT", unit |-> "tonnes", disabled |-> FALSE],
     [id |-> "crop_yield", category |-> "FAOSTAT", unit |-> "index", disabled |-> FALSE],
     [id |-> "road_density", category |-> "World Bank", unit |-> "km/100km2", disabled |-> FALSE],
     [id |-> "urbanization", category |-> "World Bank", unit |-> "%", disabled |-> FALSE],
     [id |-> "industrial_production", category |-> "UN Data", unit |-> "index", disabled |-> FALSE],
     [id |-> "tourism_arrivals", category |-> "UN Data", unit |-> "M", disabled |-> FALSE],
     [id |-> "oil_production", category |-> "Energy Institute", unit |-> "bbl/day", disabled |-> FALSE],
     [id |-> "energy_consumption", category |-> "Energy Institute", unit |-> "TWh", disabled |-> FALSE],
     [id |-> "gold_production", category |-> "USGS Minerals", unit |-> "tonnes", disabled |-> FALSE],
     [id |-> "copper_reserves", category |-> "USGS Minerals", unit |-> "Mt", disabled |-> FALSE],
     [id |-> "road_density", category |-> "World Bank", unit |-> "km/100km2", disabled |-> FALSE],
     [id |-> "urbanization", category |-> "World Bank", unit |-> "%", disabled |-> FALSE],
     [id |-> "gdp_per_capita", category |-> "World Bank", unit |-> "USD", disabled |-> FALSE],
     [id |-> "population_density", category |-> "World Bank", unit |-> "/km2", disabled |-> FALSE],
     [id |-> "military_expenditure", category |-> "World Bank", unit |-> "% GDP", disabled |-> FALSE],
     [id |-> "healthcare_expenditure", category |-> "World Bank", unit |-> "% GDP", disabled |-> FALSE]
  >>

DatasetIds == {DATASET_ENTRIES[i].id : i \in DOMAIN DATASET_ENTRIES}

\* AVAILABLE_DATASETS[id]: a key written twice in an object literal keeps
\* the value written last.
AVAILABLE_DATASETS(id) ==
  DATASET_ENTRIES[MaxOf({i \in DOMAIN DATASET_ENTRIES : DATASET_ENTRIES[i].id = id})]

\* dataset?.disabled for an arbitrary id
IsDisabled(id) == id \in DatasetIds /\ AVAILABLE_DATASETS(id).disabled

\* The keys of HEIGHT_GETTERS: the datasets that are not disabled.
HEIGHT_GETTERS == {id \in DatasetIds : ~AVAILABLE_DATASETS(id).disabled}

\* A JavaScript object used as a lookup table is a function; {} is <<>>.
Lookup(map, key, default) == IF key \in DOMAIN map THEN map[key] ELSE default

\* Rows of COUNTRY_DATA, ISO2_TO_ISO3 and militaryData for the country
\* codes the generated features carry (GT has no COUNTRY_DATA row).
COUNTRY_DATA ==
  [c \in {"US", "MX", "CA", "CU", "BZ"} |->
     CASE c = "US" -> [area |-> 9833517, neighbors |-> 2]
       [] c = "MX" -> [area |-> 1964375, neighbors |-> 3]
       [] c = "CA" -> [area |-> 9984670, neighbors |-> 1]
       [] c = "CU" -> [area |-> 109884, neighbors |-> 1]
       [] c = "BZ" -> [area |-> 22966, neighbors |-> 2]]

ISO2_TO_ISO3 ==
  [c \in {"US", "MX", "GT", "CA", "CU", "BZ", "HN", "GL", "AQ"} |->
     CASE c = "US" -> "USA" [] c = "MX" -> "MEX" [] c = "GT" -> "GTM"
       [] c = "CA" -> "CAN" [] c = "CU" -> "CUB" [] c = "BZ" -> "BLZ"
       [] c = "HN" -> "HND" [] c = "GL" -> "GRL" [] c = "AQ" -> "ATA"]

\* militaryData in tenths of a percent
militaryData ==
  [c \in {"US", "MX", "GT", "CA", "CU", "BZ", "HN"} |->
     CASE c = "US" -> 35 [] c = "MX" -> 7 [] c = "GT" -> 4 [] c = "CA" -> 14
       [] c = "CU" -> 29 [] c = "BZ" -> 12 [] c = "HN" -> 16]

\* Dataset values are integers in units of 1 / ValueScale(id).
ValueScale(id) == IF id = "military_expenditure" THEN 10 ELSE 1

\* feat.properties.X for a numeric field; a missing field is undefined,
\* which `||` treats like 0.
NumProp(feat, field) ==
  IF field \in DOMAIN feat.properties THEN feat.properties[field] ELSE 0

\* a || b on numbers
NumOr(a, b) == IF a # 0 THEN a ELSE b

\* globalDataCache.worldBank key read by a World Bank dataset
WorldBankKey(id) ==
  CASE id = "forest_area" -> "forest_area_pct"
    [] id = "co2_emissions" -> "co2_emissions_per_capita"
    [] id = "urban_population" -> "urban_population_pct"
    [] id = "internet_users" -> "internet_users_pct"
    [] id = "education_expenditure" -> "education_expenditure_pct"
    [] id = "renewable_electricity" -> "renewable_electricity_pct"
    [] id = "gdp_growth" -> "gdp_growth_rate"
    [] id = "unemployment" -> "unemployment_rate"
    [] id = "exports_gdp" -> "exports_pct_gdp"

WorldBankIds ==
  {"forest_area", "co2_emissions", "urban_population", "internet_users",
   "education_expenditure", "renewable_electricity", "gdp_growth",
   "unemployment", "exports_gdp"}

\* dataset.getter(feat) of the datasets the model can activate
getter(id, feat, cache) ==
  LET code == feat.properties.ISO_A2
      restData == Lookup(cache.restCountries, code, [area |-> 0, neighbors |-> 0])
      countryData == Lookup(COUNTRY_DATA, code, [area |-> 0, neighbors |-> 0])
      iso3 == IF "ISO_A3" \in DOMAIN feat.properties
              THEN feat.properties.ISO_A3
              ELSE Lookup(ISO2_TO_ISO3, code, Undefined)
  IN CASE id = "gdp" ->
            NumOr(NumProp(feat, "GDP_MD_EST"), NumOr(NumProp(feat, "GDP_MD"), 0))
       [] id = "population" ->
            NumOr(NumProp(feat, "POP_EST"), NumOr(NumProp(feat, "POP2005"), 0))
       [] id = "area" ->
            NumOr(restData.area, NumOr(countryData.area,
              NumOr(NumProp(feat, "AREA"), NumOr(NumProp(feat, "AREA_KM2"), 0))))
       [] id = "neighbors" ->
            NumOr(restData.neighbors, NumOr(countryData.neighbors,
              NumOr(NumProp(feat, "NEIGHBORS"),
                    NumOr(NumProp(feat, "NEIGHBOR_COUNT"), 0))))
       [] id \in WorldBankIds ->
            NumOr(Lookup(Lookup(cache.worldBank, WorldBankKey(id), <<>>), iso3, 0), 0)
       [] id = "military_expenditure" ->
            NumOr(Lookup(militaryData, code, 0), 15)

\* A property holding a text that is not a number: it is truthy, so `||`
\* returns it, and isNaN is true of it.  No generated number is this large.
NotANumber == 999999

\* The wrapper without its isNaN test
heightGetter_NaNPassed(id, feat, cache) ==
  IF ~feat.hasProps THEN 0
  ELSE LET value == getter(id, feat, cache)
       IN IF value < 0 THEN 0 ELSE value

\* HEIGHT_GETTERS[id](feat).  Every getter reads feat.properties.X first,
\* so it throws on a feature without a property bag and the catch returns
\* 0; a NaN or negative result is replaced by 0.
heightGetter(id, feat, cache) ==
  IF ~feat.hasProps THEN 0
  ELSE LET value == getter(id, feat, cache)
       IN IF value = NotANumber \/ value < 0 THEN 0 ELSE value

----------------------------------------------------------------------------
(* Exact arithmetic *)

Abs(x) == IF x < 0 THEN -x ELSE x

Max2(a, b) == IF a >= b THEN a ELSE b

RECURSIVE GCD(_, _)
GCD(a, b) == IF b = 0 THEN a ELSE GCD(b, a % b)

\* The rational n / d (d # 0) in lowest terms with a positive denominator
Rat(n, d) ==
  LET g == GCD(Abs(n), Abs(d))
      s == IF d < 0 THEN -1 ELSE 1
  IN [n |-> s * (n \div g), d |-> s * (d \div g)]

RatLe(a, b) == a.n * b.d <= b.n * a.d

RatLt(a, b) == a.n * b.d < b.n * a.d

RatMax(a, b) == IF RatLe(b, a) THEN a ELSE b

RatMin(a, b) == IF RatLe(a, b) THEN a ELSE b

RECURSIVE SumSeq(_, _)
SumSeq(s, k) == IF k = 0 THEN 0 ELSE s[k] + SumSeq(s, k - 1)

----------------------------------------------------------------------------
(* heightStats *)

\* The value heightStats returns when nothing is loaded, no filter is set
\* or no value is positive.
DefaultHeightStats ==
  [max |-> 1, min |-> 0, mean |-> [n |-> 1, d |-> 2], median |-> [n |-> 1, d |-> 2],
   values |-> <<>>, adjustedMax |-> [n |-> 1, d |-> 1], outliers |-> <<>>,
   isExtremeCrusher |-> FALSE]

\* globalDataCache before any fetch has stored a result
EmptyCache == [worldBank |-> <<>>, owid |-> <<>>, restCountries |-> <<>>, lastFetch |-> 0]

\* The index taken one position too low
Percentile_OneBelow(values, p) == values[Max2(1, (Len(values) * p) \div 100)]

\* values[Math.floor(values.length * p / 100)] with 1-based indexing
Percentile(values, p) == values[((Len(values) * p) \div 100) + 1]

\* The lower clamp alone
clampAdjustedMax_NoUpperClamp(adjustedMax, max) ==
  RatMax(adjustedMax, Rat(3 * max, 10))

\* Math.max(adjustedMax, max * 0.3), then Math.min(., max * 0.8)
clampAdjustedMax(adjustedMax, max) ==
  RatMin(RatMax(adjustedMax, Rat(3 * max, 10)), Rat(8 * max, 10))

\* The operand itself
floorAtOne_Unfloored(y, u) == y

\* Math.max(y, 1), with u value units in 1.0
floorAtOne(y, u) == RatMax(y, Rat(u, 1))

\* The statistics of a non-empty ascending list of positive values; u is
\* the number of value units in 1.0 (for Math.max(x, 1)).
statsOf(values, u) ==
  LET n == Len(values)
      max == values[n]
      min == values[1]
      sum == SumSeq(values, n)
      mean == Rat(sum, n)
      median == IF n % 2 = 0
                THEN Rat(values[n \div 2] + values[(n \div 2) + 1], 2)
                ELSE Rat(values[(n \div 2) + 1], 1)
      q1 == Percentile(values, 25)
      q3 == Percentile(values, 75)
      p95 == Percentile(values, 95)
      iqr == q3 - q1
      \* outlierThreshold = q3 + iqr * 2.5
      outlierThreshold == Rat(2 * q3 + 5 * iqr, 2)
      \* x / Math.max(y, 1) > k  is  x > k * max(y, 1)
      OverRatio(x, y, k) ==
        LET m == floorAtOne(y, u) IN RatLt(Rat(k * m.n, m.d), Rat(x, 1))
      isExtremeCrusher ==
        \/ OverRatio(max, Rat(p95, 1), 3)
        \/ OverRatio(max, mean, 8)
        \/ OverRatio(max, median, 10)
        \/ RatLt(outlierThreshold, Rat(max, 1))
      isOutlierValue(v) ==
        \/ RatLt(outlierThreshold, Rat(v, 1))
        \/ LET m == floorAtOne(Rat(p95, 1), u)
           IN RatLt(Rat(5 * m.n, 2 * m.d), Rat(v, 1))
        \/ OverRatio(v, mean, 6)
      option1 == Rat(3 * p95, 2)
      option2 == Rat(3 * mean.n, mean.d)
      option3 == Rat(4 * median.n, median.d)
      adjusted == clampAdjustedMax(RatMax(option1, RatMax(option2, option3)), max)
  IN [max |-> max, min |-> min, mean |-> mean, median |-> median,
      values |-> values,
      adjustedMax |-> IF isExtremeCrusher THEN adjusted ELSE Rat(max, 1),
      outliers |-> IF isExtremeCrusher
                   THEN SelectSeq(values, isOutlierValue) ELSE <<>>,
      isExtremeCrusher |-> isExtremeCrusher]

\* The heightStats memo for a feature list and a height filter with a getter
heightStatsOf(features, filter, cache) ==
  IF Len(features) = 0 \/ filter = "none"
  THEN DefaultHeightStats
  ELSE LET all == [k \in DOMAIN features |-> heightGetter(filter, features[k], cache)]
           values == SortSeq(SelectSeq(all, LAMBDA v : v > 0),
                             LAMBDA a, b : a < b)
       IN IF Len(values) = 0 THEN DefaultHeightStats
          ELSE statsOf(values, ValueScale(filter))

\* The getter the memo reads: HEIGHT_GETTERS[heightFilter], "none" on the
\* early return.
statsGetterOf(features, filter) ==
  IF Len(features) = 0 \/ filter = "none" THEN "none" ELSE filter

----------------------------------------------------------------------------
(* getPolygonHeight before the hover adjustment *)

\* Heights are in thousandths.
baseHeight == 5

BuiltIn == {"gdp", "population", "area", "neighbors"}

\* The scaling applied to the normalised value: the built-in datasets have
\* a fixed exponent in tenths (10 is linear); every other dataset gets the
\* adaptive exponent, written 0 here.
ScalingExponent(filter) ==
  CASE filter = "gdp" -> 10
    [] filter = "area" -> 7
    [] filter = "population" -> 6
    [] filter = "neighbors" -> 10
    [] OTHER -> 0

heightMultiplier(filter) ==
  LET dataset == AVAILABLE_DATASETS(filter)
  IN IF filter \in BuiltIn THEN 300
     ELSE IF dataset.unit = "%" THEN 250
     ELSE IF dataset.category \in {"USGS Minerals", "Energy Institute"} THEN 280
     ELSE 250

\* `normalized` before the scaling step.  kind is "number", "nan" (0 / 0)
\* or "none" (value <= 0 or max <= min: the height stays baseHeight);
\* overMax tells that the outlier branch produced it.
normalizedOf(value, stats) ==
  LET wm == stats.adjustedMax
      isOutlier == value \in Range(stats.outliers)
      \* value - workingMax and max - workingMax, times wm.d
      over == value * wm.d - wm.n
      span == stats.max * wm.d - wm.n
      \* value - min and range = workingMax - min, the latter times wm.d
      num == (value - stats.min) * wm.d
      range == wm.n - stats.min * wm.d
  IN IF ~(value > 0 /\ stats.max > stats.min)
     THEN [kind |-> "none", q |-> Rat(0, 1), overMax |-> FALSE]
     ELSE IF isOutlier /\ over > 0
     THEN \* 1.0 + ((value - workingMax) / (max - workingMax)) * 0.8
          [kind |-> "number", q |-> Rat(5 * span + 4 * over, 5 * span),
           overMax |-> TRUE]
     ELSE IF range = 0 /\ num = 0
     THEN [kind |-> "nan", q |-> Rat(0, 1), overMax |-> FALSE]
     ELSE IF range = 0
     THEN \* Math.min(1.0, Infinity)
          [kind |-> "number", q |-> Rat(1, 1), overMax |-> FALSE]
     ELSE [kind |-> "number", q |-> RatMin(Rat(1, 1), Rat(num, range)),
           overMax |-> FALSE]

\* calculatedHeight of an elevated feature: baseHeight when no filter is
\* active or the value does not qualify, else the normalised value, the
\* exponent applied to it and the multiplier.
calculatedHeight(country, filter, stats, cache) ==
  IF filter = "none"
  THEN [normalized |-> [kind |-> "none", q |-> Rat(0, 1), overMax |-> FALSE],
        exponent |-> 10, multiplier |-> 0, isOutlier |-> FALSE]
  ELSE LET value == heightGetter(filter, country, cache)
       IN [normalized |-> normalizedOf(value, stats),
           exponent |-> ScalingExponent(filter),
           multiplier |-> heightMultiplier(filter),
           isOutlier |-> value \in Range(stats.outliers)]

\* The scaled normalised value x = q ^ (exponent / 10) compared with 0 and 1.
\* Math.pow of a negative base with a fractional exponent is NaN; for the
\* adaptive exponent (0) the comparison is decided only for 0 <= q <= 1,
\* where every exponent in [0.3, 3.5] and the smoothing keep x in [0, 1].
ScaledIsNaN(h) ==
  \/ h.normalized.kind = "nan"
  \/ h.normalized.kind = "number" /\ h.normalized.q.n < 0 /\ h.exponent \in {6, 7}

ScaledInUnit(h) ==
  /\ h.normalized.kind = "number"
  /\ h.normalized.q.n >= 0
  /\ h.normalized.q.n <= h.normalized.q.d

ScaledOutsideUnit(h) ==
  \/ ScaledIsNaN(h)
  \/ /\ h.normalized.kind = "number"
     /\ h.exponent # 0
     /\ (h.normalized.q.n < 0 \/ h.normalized.q.n > h.normalized.q.d)

\* The height leaves [baseHeight, baseHeight + heightMultiplier]: it is
\* normalized * multiplier + baseHeight with the scaled value outside
\* [0, 1] or NaN.
HeightOutsideBand(h) == h.normalized.kind # "none" /\ ScaledOutsideUnit(h)

----------------------------------------------------------------------------
(* The adaptive exponent and the smoothing of getPolygonHeight *)

RatAdd(a, b) == Rat(a.n * b.d + b.n * a.d, a.d * b.d)

RatSub(a, b) == Rat(a.n * b.d - b.n * a.d, a.d * b.d)

RatMul(a, b) == Rat(a.n * b.n, a.d * b.d)

RatDiv(a, b) == Rat(a.n * b.d, a.d * b.n)

RatAbs(a) == [n |-> Abs(a.n), d |-> a.d]

\* The largest s with s * s <= n (46340 is the largest 32-bit root)
ISqrt(n) ==
  LET RECURSIVE between(_, _)
      between(lo, hi) ==
        IF lo = hi THEN lo
        ELSE LET mid == (lo + hi + 1) \div 2
             IN IF mid * mid <= n THEN between(mid, hi) ELSE between(lo, mid - 1)
  IN between(0, IF n > 46340 THEN 46340 ELSE n)

\* n * sum(v^2) - sum(v)^2: the variance of the list times n^2
SquaredDeviation(values) ==
  LET n == Len(values)
      sum == SumSeq(values, n)
      squares == SumSeq([k \in 1..n |-> values[k] * values[k]], n)
  IN n * squares - sum * sum

\* The standard deviation of the list is rational.
RationalDeviation(values) ==
  LET d == SquaredDeviation(values) IN ISqrt(d) * ISqrt(d) = d

\* Math.max(y, 0.001), with u value units in 1.0
floorAtThousandth(y, u) == RatMax(y, Rat(u, 1000))

\* The cap at 0.8
extremeOutlierCap_Weaker(exponent, maxToP90Ratio) ==
  IF RatLt(Rat(5, 1), maxToP90Ratio) THEN RatMin(exponent, Rat(8, 10)) ELSE exponent

\* if (maxToP90Ratio > 5.0) exponent = Math.min(exponent, 0.6)
extremeOutlierCap(exponent, maxToP90Ratio) ==
  IF RatLt(Rat(5, 1), maxToP90Ratio) THEN RatMin(exponent, Rat(6, 10)) ELSE exponent

\* PHASE 4 with the two intervals swapped
clampExponent_Swapped(exponent) ==
  IF RatLt(Rat(1, 1), exponent)
  THEN RatMax(Rat(3, 10), RatMin(Rat(95, 100), exponent))
  ELSE RatMax(Rat(11, 10), RatMin(Rat(35, 10), exponent))

\* PHASE 4: [1.1, 3.5] when the exponent exceeds 1.0, [0.3, 0.95] otherwise
clampExponent(exponent) ==
  IF RatLt(Rat(1, 1), exponent)
  THEN RatMax(Rat(11, 10), RatMin(Rat(35, 10), exponent))
  ELSE RatMax(Rat(3, 10), RatMin(Rat(95, 100), exponent))

\* The exponent of the adaptive branch for heightStats.values (ascending,
\* positive, max > min, rational standard deviation), u value units in 1.0.
adaptiveExponent(values, u) ==
  LET n == Len(values)
      max == Rat(values[n], 1)
      min == Rat(values[1], 1)
      mean == Rat(SumSeq(values, n), n)
      stdDev == Rat(ISqrt(SquaredDeviation(values)), n)
      coefficientOfVariation == RatDiv(stdDev, floorAtThousandth(mean, u))
      p90 == Rat(Percentile(values, 90), 1)
      p95 == Rat(Percentile(values, 95), 1)
      p99 == Rat(Percentile(values, 99), 1)
      maxToP95Ratio == RatDiv(max, floorAtThousandth(p95, u))
      maxToP90Ratio == RatDiv(max, floorAtThousandth(p90, u))
      p99ToP90Ratio == RatDiv(p99, floorAtThousandth(p90, u))
      topCompression == RatDiv(RatSub(max, p95),
                               floorAtThousandth(RatSub(max, min), u))
      one == Rat(1, 1)
      \* PHASE 1
      phase1 ==
        IF RatLt(coefficientOfVariation, Rat(4, 10))
        THEN RatAdd(Rat(2, 1),
                    RatMul(RatSub(Rat(4, 10), coefficientOfVariation), Rat(5, 2)))
        ELSE IF RatLt(Rat(12, 10), coefficientOfVariation)
        THEN RatMax(Rat(4, 10),
                    RatSub(one, RatMul(RatSub(coefficientOfVariation, Rat(12, 10)),
                                       Rat(3, 10))))
        ELSE RatAdd(one,
                    RatMul(RatSub(Rat(8, 10),
                                  RatAbs(RatSub(coefficientOfVariation, Rat(8, 10)))),
                           Rat(3, 2)))
      \* PHASE 2
      outlierIntensity == RatMin(one, RatDiv(RatSub(maxToP95Ratio, Rat(3, 1)), Rat(7, 1)))
      phase2a ==
        IF RatLt(Rat(3, 1), maxToP95Ratio)
        THEN RatMul(phase1, RatSub(one, RatMul(outlierIntensity, Rat(6, 10))))
        ELSE phase1
      compressionFactor ==
        RatMin(one, RatDiv(RatSub(topCompression, Rat(3, 10)), Rat(4, 10)))
      phase2b ==
        IF RatLt(Rat(3, 10), topCompression)
        THEN RatMul(phase2a, RatSub(one, RatMul(compressionFactor, Rat(4, 10))))
        ELSE phase2a
      \* PHASE 3
      phase3a ==
        IF RatLt(Rat(2, 1), p99ToP90Ratio) THEN RatMul(phase2b, Rat(8, 10))
        ELSE phase2b
      phase3b == extremeOutlierCap(phase3a, maxToP90Ratio)
  IN clampExponent(phase3b)

\* PHASE 6: above 0.9 in expansive mode 0.9 + topPortion * 0.1 * 0.85, below
\* 0.1 in compressive mode bottomPortion * 0.15
smoothed(exponent, normalized) ==
  IF RatLt(Rat(1, 1), exponent) /\ RatLt(Rat(9, 10), normalized)
  THEN RatAdd(Rat(9, 10), RatMul(RatSub(normalized, Rat(9, 10)), Rat(85, 100)))
  ELSE IF RatLt(exponent, Rat(1, 1)) /\ RatLt(normalized, Rat(1, 10))
  THEN RatMul(RatDiv(normalized, Rat(1, 10)), Rat(15, 100))
  ELSE normalized

----------------------------------------------------------------------------
(* Initial state of App and GlobeWrapper *)

InitialSelectedDatasets ==
  <<"gdp", "population", "area", "neighbors",
    "forest_area", "internet_users", "urban_population", "military_expenditure">>

NoFeature == [hasProps |-> FALSE, properties |-> <<>>, geometry |-> <<>>]

\* No initializeGlobalData call is in flight.
\* completed is the clock value at which the last fetching call returned.
NoCall == [pc |-> "idle", now |-> 0, next |-> 0, failures |-> 0, completed |-> 0]

\* if (now - globalDataCache.lastFetch < 3600000 ...): one hour, in units
\* of ten minutes
CacheWindow == 6

\* useState of selectedCountries, gamePhase, currentPlayer, playerCountries
InitialGame ==
  [selectedCountries |-> <<>>, gamePhase |-> "country_selection",
   currentPlayer |-> 0, playerCountries |-> [player1 |-> <<>>, player2 |-> <<>>]]

\* useState of allianceStates and allianceDisplayStates; timers holds the
\* seconds left of every pending 5 second setTimeout, sinceSend the seconds
\* since the player's last send (AllianceDelay when there was none).
AllianceDelay == 5

NoAlliance == [sent |-> FALSE, display |-> FALSE, timers |-> <<>>, sinceSend |-> AllianceDelay]

InitialAlliances == [p \in {"player1", "player2"} |-> NoAlliance]

NoOutput == [called |-> FALSE, dataDriven |-> FALSE, key |-> <<>>]

\* Everything but the generated input; pending tells whether the
\* polygons.geojson fetch is still in flight.
InitialState(pending) ==
  /\ output = NoOutput
  /\ fetchPending = pending
  /\ useDataDrivenRegions = FALSE
  /\ countries = <<>>
  /\ regionBoundaries = <<>>
  /\ selectedDatasets = InitialSelectedDatasets
  /\ heightFilter = "none"
  /\ heightStats = DefaultHeightStats
  /\ statsGetter = "none"
  /\ globalDataCache = EmptyCache
  /\ hoverD = 0
  /\ mounted = TRUE
  /\ dataLoading = TRUE
  /\ dataStatus = "Initializing..."
  /\ clock = CacheWindow
  /\ init = NoCall
  /\ game = InitialGame
  /\ alliances = InitialAlliances

----------------------------------------------------------------------------
(* Operations *)

\* A render callback classifies the feature `input` under the current mode.
Classify ==
  /\ output' = [called |-> TRUE, dataDriven |-> useDataDrivenRegions,
                key |-> getCountryRegion(input, useDataDrivenRegions)]
  /\ UNCHANGED <<countries, useDataDrivenRegions, regionBoundaries,
                 selectedDatasets, heightFilter, heightStats, statsGetter,
                 fetchPending, globalDataCache, input>>
  /\ UNCHANGED viewVars

\* fetch('/data/polygons.geojson') resolves with the collection `input`:
\* setCountries, then in the following render the heightStats memo and the
\* boundary effect.
LoadCountries ==
  /\ fetchPending
  /\ mounted
  /\ fetchPending' = FALSE
  /\ countries' = loadedFeatures(input)
  /\ heightStats' = heightStatsOf(countries', heightFilter, globalDataCache)
  /\ statsGetter' = statsGetterOf(countries', heightFilter)
  /\ regionBoundaries' =
       boundaryEffect(countries', useDataDrivenRegions, regionBoundaries)
  /\ UNCHANGED <<useDataDrivenRegions, selectedDatasets, heightFilter,
                 globalDataCache, input, output>>
  /\ UNCHANGED viewVars

\* The fetch rejects: setCountries({ features: [] }); the memo returns its
\* default and the boundary effect keeps the list.
LoadFailed ==
  /\ fetchPending
  /\ mounted
  /\ fetchPending' = FALSE
  /\ countries' = <<>>
  /\ heightStats' = heightStatsOf(countries', heightFilter, globalDataCache)
  /\ statsGetter' = statsGetterOf(countries', heightFilter)
  /\ UNCHANGED <<useDataDrivenRegions, regionBoundaries, selectedDatasets,
                 heightFilter, globalDataCache, input, output>>
  /\ UNCHANGED viewVars

\* The mode checkbox, setUseDataDrivenRegions(e.target.checked), with the
\* boundary effect of the following render.
ToggleDataDriven ==
  /\ useDataDrivenRegions' = ~useDataDrivenRegions
  /\ regionBoundaries' =
       boundaryEffect(countries, useDataDrivenRegions', regionBoundaries)
  /\ UNCHANGED <<countries, selectedDatasets, heightFilter, heightStats,
                 statsGetter, fetchPending, globalDataCache, input, output>>
  /\ UNCHANGED viewVars

\* A height filter button; there is one per selected dataset.  The
\* heightStats memo is recomputed in the following render.
ClickHeightFilter(key) ==
  /\ key \in Range(selectedDatasets)
  /\ heightFilter' = IF heightFilter = key THEN "none" ELSE key
  /\ heightStats' = heightStatsOf(countries, heightFilter', globalDataCache)
  /\ statsGetter' = statsGetterOf(countries, heightFilter')
  /\ UNCHANGED <<countries, useDataDrivenRegions, regionBoundaries,
                 selectedDatasets, fetchPending, globalDataCache, input, output>>
  /\ UNCHANGED viewVars

\* The handler without its check of dataset.disabled
handleDatasetSelect_NoDisabledCheck(datasetId) ==
  /\ selectedDatasets' =
       IF datasetId \in Range(selectedDatasets)
       THEN SelectSeq(selectedDatasets, LAMBDA id : id # datasetId)
       ELSE Append(selectedDatasets, datasetId)
  /\ UNCHANGED <<countries, useDataDrivenRegions, regionBoundaries,
                 heightFilter, heightStats, statsGetter, fetchPending,
                 globalDataCache, input, output>>
  /\ UNCHANGED viewVars

\* For a disabled dataset the handler warns and returns, changing nothing.
handleDatasetSelect(datasetId) ==
  /\ ~IsDisabled(datasetId)
  /\ selectedDatasets' =
       IF datasetId \in Range(selectedDatasets)
       THEN SelectSeq(selectedDatasets, LAMBDA id : id # datasetId)
       ELSE Append(selectedDatasets, datasetId)
  /\ UNCHANGED <<countries, useDataDrivenRegions, regionBoundaries,
                 heightFilter, heightStats, statsGetter, fetchPending,
                 globalDataCache, input, output>>
  /\ UNCHANGED viewVars

\* The x button of a selected dataset
handleDatasetDeselect(datasetId) ==
  /\ datasetId \in Range(selectedDatasets)
  /\ selectedDatasets' = SelectSeq(selectedDatasets, LAMBDA id : id # datasetId)
  /\ UNCHANGED <<countries, useDataDrivenRegions, regionBoundaries,
                 heightFilter, heightStats, statsGetter, fetchPending,
                 globalDataCache, input, output>>
  /\ UNCHANGED viewVars

----------------------------------------------------------------------------
(* Classification as a function: getCountryRegion on generated features *)

SlugAlphabet == {"A", "a", " ", "&", "-"}

SubregionInputs == SeqsUpTo(SlugAlphabet, MaxStrLen) \cup {NorthernAmerica}

ContinentInputs ==
  {Europe, Africa, Asia, NorthAmerica, SouthAmerica, Oceania}
    \cup SeqsUpTo(SlugAlphabet, 1)

RegionUnInputs == {<<>>, <<"A", "-", "a">>}

CodeInputs == {"US", "AQ", "ZZ", "-99", "n/a", Undefined}

ClassifyInputs ==
  {NoFeature} \cup
  {[hasProps |-> TRUE,
    properties |-> [ISO_A2 |-> iso, ADMIN |-> admin, NAME |-> name,
                    CONTINENT |-> cont, SUBREGION |-> sub, REGION_UN |-> run],
    geometry |-> <<>>] :
     iso \in CodeInputs, admin \in {"Norway", Undefined},
     name \in {"France", Undefined}, cont \in ContinentInputs,
     sub \in SubregionInputs, run \in RegionUnInputs}

InitClassify == input \in ClassifyInputs /\ InitialState(FALSE)

NextClassify == Classify \/ ToggleDataDriven

SpecClassify == InitClassify /\ [][NextClassify]_vars

----------------------------------------------------------------------------
(* Boundary extraction on generated feature collections *)

CentralAmerica == <<"C","e","n","t","r","a","l"," ","A","m","e","r","i","c","a">>

Props(iso, continent, subregion) ==
  [ISO_A2 |-> iso, ADMIN |-> Undefined, NAME |-> Undefined,
   CONTINENT |-> continent, SUBREGION |-> subregion, REGION_UN |-> <<>>]

\* US and MX share a static region, MX and GT share a derived region;
\* GL is an excluded code and ZZ has no static region.
FirstProfiles ==
  {Props("US", NorthAmerica, NorthernAmerica),
   Props("MX", NorthAmerica, CentralAmerica),
   Props("GL", NorthAmerica, NorthernAmerica)}

SecondProfiles ==
  {Props("MX", NorthAmerica, CentralAmerica),
   Props("GT", NorthAmerica, CentralAmerica),
   Props("ZZ", <<>>, <<>>)}

Points == {<<x, x % 2>> : x \in 0..MaxCoord}

Rings == UNION {[1..k -> Points] : k \in 1..MaxRingLen}

PolygonFeature(props, ring) ==
  [hasProps |-> TRUE, properties |-> props,
   geometry |-> [type |-> "Polygon", coordinates |-> <<ring>>]]

FetchedCollections ==
  {<<PolygonFeature(p1, r1), PolygonFeature(p2, r2)>> :
     p1 \in FirstProfiles, p2 \in SecondProfiles, r1 \in Rings, r2 \in Rings}

InitBoundary == input \in FetchedCollections /\ InitialState(TRUE)

NextBoundary == LoadCountries \/ LoadFailed \/ ToggleDataDriven

SpecBoundary == InitBoundary /\ [][NextBoundary]_vars

----------------------------------------------------------------------------
(* Height normalisation on generated values *)

\* Codes of the generated features, by position; all have a static region.
CodeAt == <<"US", "MX", "GT", "CA", "CU", "BZ", "HN">>

ValuedFeature(i, v) ==
  PolygonFeature(
    [ISO_A2 |-> CodeAt[i], ADMIN |-> Undefined, NAME |-> Undefined,
     CONTINENT |-> NorthAmerica, SUBREGION |-> CentralAmerica, REGION_UN |-> <<>>,
     GDP_MD_EST |-> v, POP_EST |-> v],
    <<<<0, 0>>, <<1, 1>>, <<0, 0>>>>)

ValuedCollection(vs) == [i \in DOMAIN vs |-> ValuedFeature(i, vs[i])]

\* The two-feature dataset 100 / 100,000,000, a dataset whose adjustedMax
\* falls below its minimum, and one whose adjustedMax equals its minimum.
ScenarioValues ==
  {<<100, 100000000>>, <<17, 18, 18, 18, 20>>, <<4, 4, 4, 4, 5>>}

ValueLists == SeqsUpTo(0..MaxValue, MaxFeatures) \cup ScenarioValues

InitHeight ==
  /\ input \in {ValuedCollection(vs) : vs \in ValueLists}
  /\ InitialState(TRUE)

NextHeight ==
  \/ LoadCountries
  \/ \E key \in Range(selectedDatasets) : ClickHeightFilter(key)

SpecHeight == InitHeight /\ [][NextHeight]_vars

----------------------------------------------------------------------------
(* Dataset selection *)

\* Ids offered to the selection handlers: the first MaxClickEntry entries
\* of the catalogue (they include the disabled co2_emissions).
ClickIds == {DATASET_ENTRIES[i].id : i \in 1..MaxClickEntry}

InitSelection ==
  /\ input = ValuedCollection(<<100, 100000000>>)
  /\ InitialState(TRUE)

NextSelection ==
  \/ LoadCountries
  \/ \E id \in ClickIds : handleDatasetSelect(id)
  \/ \E id \in Range(selectedDatasets) : handleDatasetDeselect(id)
  \/ \E key \in Range(selectedDatasets) : ClickHeightFilter(key)

SpecSelection == InitSelection /\ [][NextSelection]_vars

----------------------------------------------------------------------------
(* Hover *)

\* handlePolygonHover(country): null (i = 0) and elevated polygons are
\* stored, a surface polygon is ignored.
handlePolygonHover(layer, i) ==
  /\ mounted
  /\ i \in 0..Len(countries)
  /\ hoverD' = IF i = 0 \/ layer = "elevated" THEN i ELSE hoverD
  /\ UNCHANGED <<countries, useDataDrivenRegions, regionBoundaries,
                 selectedDatasets, heightFilter, heightStats, statsGetter,
                 fetchPending, globalDataCache, input, output,
                 mounted, dataLoading, dataStatus, clock, init, game, alliances>>

\* The two in-region deltas exchanged
hoverAdjustment_RegionAboveDirect(i, hover, features, dataDriven) ==
  LET hoveredRegion == IF hover # 0 THEN getCountryRegion(features[hover], dataDriven)
                       ELSE <<>>
      countryRegion == getCountryRegion(features[i], dataDriven)
  IN IF hoveredRegion # <<>> /\ countryRegion = hoveredRegion
     THEN IF i = hover THEN 20 ELSE 50
     ELSE IF i = hover THEN 10 ELSE 0

\* The amount getPolygonHeight adds to calculatedHeight for the elevated
\* feature i, in thousandths; hover is the index held by hoverD.
hoverAdjustment(i, hover, features, dataDriven) ==
  LET hoveredRegion == IF hover # 0 THEN getCountryRegion(features[hover], dataDriven)
                       ELSE <<>>
      countryRegion == getCountryRegion(features[i], dataDriven)
  IN IF hoveredRegion # <<>> /\ countryRegion = hoveredRegion
     THEN IF i = hover THEN 50 ELSE 20
     ELSE IF i = hover THEN 10 ELSE 0

\* Two features over one ring; the profiles decide which are loaded and
\* which regions they fall in.
HoverRing == <<<<0, 0>>, <<2, 0>>, <<0, 0>>>>

HoverCollections ==
  {<<PolygonFeature(p1, HoverRing), PolygonFeature(p2, HoverRing)>> :
     p1 \in FirstProfiles, p2 \in SecondProfiles}

InitHover == input \in HoverCollections /\ InitialState(TRUE)

NextHover ==
  \/ LoadCountries
  \/ ToggleDataDriven
  \/ \E key \in Range(selectedDatasets) : ClickHeightFilter(key)
  \/ \E layer \in {"surface", "elevated"}, i \in 0..Len(countries) :
       handlePolygonHover(layer, i)

SpecHover == InitHover /\ [][NextHover]_vars

----------------------------------------------------------------------------
(* getCountryCode as a function *)

ExtractCode ==
  /\ output' = [called |-> TRUE, code |-> getCountryCode(input)]
  /\ UNCHANGED <<countries, useDataDrivenRegions, regionBoundaries,
                 selectedDatasets, heightFilter, heightStats, statsGetter,
                 fetchPending, globalDataCache, input>>
  /\ UNCHANGED viewVars

CodeFeatures ==
  {NoFeature} \cup
  {[hasProps |-> TRUE,
    properties |-> [ISO_A2 |-> iso, ADMIN |-> admin, NAME |-> name,
                    CONTINENT |-> <<>>, SUBREGION |-> <<>>, REGION_UN |-> <<>>],
    geometry |-> <<>>] :
     iso \in {"US", "-99", "n/a", "", Undefined},
     admin \in {"Norway", "Kosovo", "Atlantis", Undefined},
     name \in {"France", "Northern Cyprus", "Atlantis", Undefined}}

InitCode == input \in CodeFeatures /\ InitialState(FALSE)

NextCode == ExtractCode \/ ToggleDataDriven

SpecCode == InitCode /\ [][NextCode]_vars

----------------------------------------------------------------------------
(* Geometry types *)

RingA == <<<<0, 0>>, <<2, 0>>>>
RingB == <<<<0, 0>>, <<2, 0>>, <<0, 0>>>>
RingC == <<<<2, 0>>, <<0, 0>>>>

\* Single polygons, multi-part polygons (one part, a later larger part, an
\* earlier larger part, two parts of equal size) and a point.
Geometries ==
  << [type |-> "Polygon", coordinates |-> <<RingA>>],
     [type |-> "Polygon", coordinates |-> <<RingB>>],
     [type |-> "MultiPolygon", coordinates |-> << <<RingA>> >>],
     [type |-> "MultiPolygon", coordinates |-> << <<RingA>>, <<RingB>> >>],
     [type |-> "MultiPolygon", coordinates |-> << <<RingB>>, <<RingA>> >>],
     [type |-> "MultiPolygon", coordinates |-> << <<RingA>>, <<RingC>> >>],
     [type |-> "MultiPolygon", coordinates |-> << <<RingC>>, <<RingA>>, <<RingB>> >>],
     [type |-> "Point", coordinates |-> <<0, 0>>] >>

GeometryFeature(props, g) ==
  [hasProps |-> TRUE, properties |-> props, geometry |-> Geometries[g]]

InitGeometry ==
  /\ \E g1, g2 \in DOMAIN Geometries, p2 \in SecondProfiles :
       input = <<GeometryFeature(Props("US", NorthAmerica, NorthernAmerica), g1),
                 GeometryFeature(p2, g2)>>
  /\ InitialState(TRUE)

NextGeometry == LoadCountries \/ LoadFailed \/ ToggleDataDriven

SpecGeometry == InitGeometry /\ [][NextGeometry]_vars

----------------------------------------------------------------------------
(* The wrapped accessors on features whose accessor fails *)

\* A feature without a property bag: every accessor throws on it.
BareFeature ==
  [hasProps |-> FALSE, properties |-> <<>>,
   geometry |-> [type |-> "Polygon",
                 coordinates |-> <<<<<<0, 0>>, <<1, 1>>, <<0, 0>>>>>>]]

\* Raw values of GDP_MD_EST and POP_EST: a text, negative numbers, zero and
\* positive numbers.
RawValues == {NotANumber, -2, -1, 0, 1, 3}

AccessorFeatures(i) == {BareFeature} \cup {ValuedFeature(i, v) : v \in RawValues}

AccessorCollections ==
  UNION {{fs \in [1..n -> UNION {AccessorFeatures(i) : i \in 1..n}] :
            \A i \in 1..n : fs[i] \in AccessorFeatures(i)} :
         n \in 1..MaxAccessorFeatures}

\* heightStats and getPolygonHeight applied to the collection `input`
\* under the dataset filter
ApplyAccessors(filter) ==
  /\ filter \in HEIGHT_GETTERS
  /\ LET stats == heightStatsOf(input, filter, globalDataCache)
     IN output' =
          [called |-> TRUE,
           filter |-> filter,
           values |-> [i \in DOMAIN input |->
                         heightGetter(filter, input[i], globalDataCache)],
           stats |-> stats,
           heights |-> [i \in DOMAIN input |->
                          calculatedHeight(input[i], filter, stats, globalDataCache)]]
  /\ UNCHANGED <<countries, useDataDrivenRegions, regionBoundaries,
                 selectedDatasets, heightFilter, heightStats, statsGetter,
                 fetchPending, globalDataCache, input>>
  /\ UNCHANGED viewVars

InitAccessor == input \in AccessorCollections /\ InitialState(FALSE)

NextAccessor == \E filter \in {"gdp", "population"} : ApplyAccessors(filter)

SpecAccessor == InitAccessor /\ [][NextAccessor]_vars

----------------------------------------------------------------------------
(* heightStats on values below 1 *)

\* Values in tenths: 0.1, 0.5, 1.1, 4 and 12
TenthsPerUnit == 10

FractionalValues == {1, 5, 11, 40, 120}

\* The ascending lists heightStats obtains from its sort
SortedLists ==
  {vs \in UNION {[1..n -> FractionalValues] : n \in 1..MaxStatLen} :
     \A i \in 1..(Len(vs) - 1) : vs[i] <= vs[i + 1]}

\* The statistics part of heightStats applied to the sorted list `input`
ComputeStats ==
  /\ heightStats' = statsOf(input, TenthsPerUnit)
  /\ output' = [called |-> TRUE, dataDriven |-> FALSE, key |-> <<>>]
  /\ UNCHANGED <<countries, useDataDrivenRegions, regionBoundaries,
                 selectedDatasets, heightFilter, statsGetter,
                 fetchPending, globalDataCache, input>>
  /\ UNCHANGED viewVars

InitStats == input \in SortedLists /\ InitialState(FALSE)

NextStats == ComputeStats

SpecStats == InitStats /\ [][NextStats]_vars

----------------------------------------------------------------------------
(* The global dataset initialisation and the life cycle of the view *)

\* The values of wbIndicators, in the order of the loop
WB_INDICATORS ==
  <<"forest_area_pct", "co2_emissions_per_capita", "urban_population_pct",
    "internet_users_pct", "education_expenditure_pct",
    "renewable_electricity_pct", "life_expectancy", "gdp_growth_rate",
    "unemployment_rate", "exports_pct_gdp", "military_expenditure_pct">>

\* What fetchWorldBankData returns when the request succeeds: a value per
\* countryiso3code (the position of the indicator keeps the tables apart).
WorldBankResult(k) == [c \in {"USA", "MEX"} |-> IF c = "USA" THEN 30 + k ELSE 60 + k]

\* What fetchRestCountries returns when the request succeeds
RestCountriesResult ==
  [c \in {"US", "MX"} |->
     IF c = "US" THEN [area |-> 9372610, neighbors |-> 2]
     ELSE [area |-> 1964375, neighbors |-> 3]]

\* The test of Object.keys alone, without the one of age
cacheIsFresh_PopulatedOnly(now, cache) == DOMAIN cache.worldBank # {}

\* now - lastFetch < 3600000 && Object.keys(worldBank).length > 0
cacheIsFresh(now, cache) ==
  now - cache.lastFetch < CacheWindow /\ DOMAIN cache.worldBank # {}

\* Time passes.
Tick ==
  /\ clock < MaxClock
  /\ clock' = clock + 1
  /\ UNCHANGED <<countries, useDataDrivenRegions, regionBoundaries,
                 selectedDatasets, heightFilter, heightStats, statsGetter,
                 fetchPending, globalDataCache, input, output,
                 game, alliances, hoverD, mounted, dataLoading, dataStatus, init>>

\* The mount effect of App: loadGlobalData up to its await, which runs
\* initializeGlobalData up to its first await or its early return.
loadGlobalData ==
  /\ mounted
  /\ dataStatus = "Initializing..."
  /\ init.pc = "idle"
  /\ dataLoading' = TRUE
  /\ dataStatus' = "Fetching World Bank data..."
  /\ init' = IF cacheIsFresh(clock, globalDataCache)
             THEN [init EXCEPT !.pc = "resolved", !.now = clock, !.failures = 0]
             ELSE [init EXCEPT !.pc = "worldBank", !.now = clock, !.next = 1,
                               !.failures = 0]
  /\ UNCHANGED <<countries, useDataDrivenRegions, regionBoundaries,
                 selectedDatasets, heightFilter, heightStats, statsGetter,
                 fetchPending, globalDataCache, input, output,
                 game, alliances, hoverD, mounted, clock>>

\* One turn of the indicator loop: fetchWorldBankData returns its table, or
\* {} when the request failed, and the result is stored under the name.
FetchWorldBank(ok) ==
  /\ init.pc = "worldBank"
  /\ ok \/ init.failures < MaxFailures
  /\ globalDataCache' =
       [globalDataCache EXCEPT !.worldBank =
          [n \in DOMAIN @ \cup {WB_INDICATORS[init.next]} |->
             IF n = WB_INDICATORS[init.next]
             THEN IF ok THEN WorldBankResult(init.next) ELSE <<>>
             ELSE @[n]]]
  /\ init' = [init EXCEPT
                !.next = @ + 1,
                !.failures = IF ok THEN @ ELSE @ + 1,
                !.pc = IF init.next = Len(WB_INDICATORS) THEN "restCountries"
                       ELSE "worldBank"]
  /\ UNCHANGED <<countries, useDataDrivenRegions, regionBoundaries,
                 selectedDatasets, heightFilter, heightStats, statsGetter,
                 fetchPending, input, output,
                 game, alliances, hoverD, mounted, dataLoading, dataStatus, clock>>

\* fetchRestCountries returns its table, or {} when the request failed;
\* then lastFetch = now and the call returns.
FetchRestCountries(ok) ==
  /\ init.pc = "restCountries"
  /\ ok \/ init.failures < MaxFailures
  /\ globalDataCache' =
       [globalDataCache EXCEPT
          !.restCountries = IF ok THEN RestCountriesResult ELSE <<>>,
          !.lastFetch = init.now]
  /\ init' = [init EXCEPT !.pc = "resolved",
                          !.failures = IF ok THEN @ ELSE @ + 1,
                          !.completed = clock]
  /\ UNCHANGED <<countries, useDataDrivenRegions, regionBoundaries,
                 selectedDatasets, heightFilter, heightStats, statsGetter,
                 fetchPending, input, output,
                 game, alliances, hoverD, mounted, dataLoading, dataStatus, clock>>

\* loadGlobalData after its await.  initializeGlobalData catches every
\* failure itself, so the await never throws and the catch branch
\* ('Using fallback data') is never taken.
FinishLoad ==
  /\ init.pc = "resolved"
  /\ dataStatus' = "Data loaded successfully"
  /\ dataLoading' = FALSE
  /\ init' = [init EXCEPT !.pc = "idle"]
  /\ UNCHANGED <<countries, useDataDrivenRegions, regionBoundaries,
                 selectedDatasets, heightFilter, heightStats, statsGetter,
                 fetchPending, globalDataCache, input, output,
                 game, alliances, hoverD, mounted, clock>>

\* The view is torn down; the cleanup of the load effect clears its flag.
Unmount ==
  /\ mounted
  /\ mounted' = FALSE
  /\ UNCHANGED <<countries, useDataDrivenRegions, regionBoundaries,
                 selectedDatasets, heightFilter, heightStats, statsGetter,
                 fetchPending, globalDataCache, input, output,
                 game, alliances, hoverD, dataLoading, dataStatus, clock, init>>

\* The polygons.geojson fetch settles after the teardown: both handlers
\* return on !mounted.
LoadIgnored ==
  /\ fetchPending
  /\ ~mounted
  /\ fetchPending' = FALSE
  /\ UNCHANGED <<countries, useDataDrivenRegions, regionBoundaries,
                 selectedDatasets, heightFilter, heightStats, statsGetter,
                 globalDataCache, input, output,
                 game, alliances, hoverD, mounted, dataLoading, dataStatus, clock, init>>

\* The view is mounted again, once the requests of the previous one have
\* settled: component state starts afresh, the module-level cache stays.
Mount ==
  /\ ~mounted
  /\ ~fetchPending
  /\ init.pc = "idle"
  /\ mounted' = TRUE
  /\ fetchPending' = TRUE
  /\ countries' = <<>>
  /\ useDataDrivenRegions' = FALSE
  /\ regionBoundaries' = <<>>
  /\ selectedDatasets' = InitialSelectedDatasets
  /\ heightFilter' = "none"
  /\ heightStats' = DefaultHeightStats
  /\ statsGetter' = "none"
  /\ hoverD' = 0
  /\ dataLoading' = TRUE
  /\ dataStatus' = "Initializing..."
  /\ game' = InitialGame
  /\ alliances' = InitialAlliances
  /\ UNCHANGED <<globalDataCache, input, output, clock, init>>

InitFetch ==
  /\ input = ValuedCollection(<<100, 100000000>>)
  /\ InitialState(TRUE)

NextFetch ==
  \/ Tick
  \/ loadGlobalData
  \/ \E ok \in BOOLEAN : FetchWorldBank(ok)
  \/ \E ok \in BOOLEAN : FetchRestCountries(ok)
  \/ FinishLoad
  \/ LoadCountries
  \/ LoadIgnored
  \/ Unmount
  \/ Mount

SpecFetch == InitFetch /\ [][NextFetch]_vars

\* Recomputation while the datasets arrive
NextRecompute ==
  \/ loadGlobalData
  \/ \E ok \in BOOLEAN : FetchWorldBank(ok)
  \/ \E ok \in BOOLEAN : FetchRestCountries(ok)
  \/ FinishLoad
  \/ LoadCountries
  \/ ToggleDataDriven
  \/ \E key \in Range(selectedDatasets) : ClickHeightFilter(key)

SpecRecompute == InitFetch /\ [][NextRecompute]_vars

----------------------------------------------------------------------------
(* sortBoundaryPoints on generated point lists *)

SortPoints == {<<x, y>> : x \in 0..MaxCoord, y \in 0..1}

SortInputs == UNION {[1..n -> SortPoints] : n \in 1..MaxSortLen}

\* sortBoundaryPoints applied to the list `input`
SortBoundary ==
  /\ ~output.called
  /\ output' = [called |-> TRUE, sorted |-> sortBoundaryPoints(input)]
  /\ UNCHANGED <<countries, useDataDrivenRegions, regionBoundaries,
                 selectedDatasets, heightFilter, heightStats, statsGetter,
                 fetchPending, globalDataCache, input>>
  /\ UNCHANGED viewVars

InitSort == input \in SortInputs /\ InitialState(FALSE)

NextSort == SortBoundary

SpecSort == InitSort /\ [][NextSort]_vars

----------------------------------------------------------------------------
(* The adaptive exponent on generated distributions *)

DistributionValues == <<1, 2, 4, 10, 100>>

\* k copies of v
Copies(v, k) == [i \in 1..k |-> v]

\* The ascending list with counts[i] copies of DistributionValues[i]
ListOfCounts(counts) ==
  LET RECURSIVE upTo(_)
      upTo(i) == IF i = 0 THEN <<>>
                 ELSE upTo(i - 1) \o Copies(DistributionValues[i], counts[i])
  IN upTo(Len(DistributionValues))

\* heightStats.values for which getPolygonHeight takes the adaptive branch
\* (max > min) and the standard deviation is rational
Distributions ==
  {vs \in {ListOfCounts(c) :
             c \in {f \in [DOMAIN DistributionValues -> 0..MaxBulk] :
                      \A i \in 2..Len(DistributionValues) : f[i] <= MaxFew}} :
     /\ Len(vs) >= 2
     /\ vs[1] < vs[Len(vs)]
     /\ RationalDeviation(vs)}

\* Value units in 1.0: whole numbers, and ten-thousandths
DistributionUnits == {1, 10000}

\* The adaptive branch of getPolygonHeight up to PHASE 4
ComputeExponent ==
  /\ ~output.called
  /\ output' = [called |-> TRUE,
                exponent |-> adaptiveExponent(input.values, input.unit)]
  /\ UNCHANGED <<countries, useDataDrivenRegions, regionBoundaries,
                 selectedDatasets, heightFilter, heightStats, statsGetter,
                 fetchPending, globalDataCache, input>>
  /\ UNCHANGED viewVars

InitExponent ==
  /\ input \in [values : Distributions, unit : DistributionUnits]
  /\ InitialState(FALSE)

NextExponent == ComputeExponent

SpecExponent == InitExponent /\ [][NextExponent]_vars

\* An expansive and a compressive exponent
SmoothExponents == {Rat(3, 2), Rat(6, 10)}

\* Post-exponent normalized values, in hundredths
SmoothValues == 0..MaxSmoothed

\* PHASE 6 applied to the post-exponent values a <= b of two features of
\* one dataset
ApplySmoothing ==
  /\ ~output.called
  /\ output' = [called |-> TRUE,
                a |-> smoothed(input.exponent, Rat(input.a, 100)),
                b |-> smoothed(input.exponent, Rat(input.b, 100))]
  /\ UNCHANGED <<countries, useDataDrivenRegions, regionBoundaries,
                 selectedDatasets, heightFilter, heightStats, statsGetter,
                 fetchPending, globalDataCache, input>>
  /\ UNCHANGED viewVars

InitSmooth ==
  /\ input \in {r \in [exponent : SmoothExponents, a : SmoothValues, b : SmoothValues] :
                  r.a <= r.b}
  /\ InitialState(FALSE)

NextSmooth == ApplySmoothing

SpecSmooth == InitSmooth /\ [][NextSmooth]_vars

----------------------------------------------------------------------------
(* Country selection of the two players *)

\* The check applied to the first player's list only
isAlreadySelected_FirstPlayerOnly(playerCountries, countryCode) ==
  countryCode \in Range(playerCountries.player1)

\* Object.values(playerCountries).some(list => list.includes(countryCode))
isAlreadySelected(playerCountries, countryCode) ==
  \E p \in DOMAIN playerCountries : countryCode \in Range(playerCountries[p])

\* handleCountrySelect of App, with currentPlayer and gamePhase as rendered
handleCountrySelect(g, countryCode) ==
  LET playerKey == IF g.currentPlayer = 0 THEN "player1" ELSE "player2"
  IN [g EXCEPT
        !.selectedCountries = Append(@, countryCode),
        !.playerCountries[playerKey] = Append(@, countryCode),
        !.currentPlayer = IF g.gamePhase = "country_selection"
                          THEN (@ + 1) % 2 ELSE @]

\* onPolygonClick on the polygon of feature i in the given layer; output
\* records the click.
handleCountryClick(layer, i) ==
  /\ mounted
  /\ i \in DOMAIN countries
  /\ LET country == countries[i]
         countryCode == getCountryCode(country)
     IN game' =
          IF game.gamePhase # "country_selection" \/ layer # "elevated"
          THEN game
          ELSE IF countryCode = Undefined \/ countryCode = "-99" THEN game
          ELSE IF isAlreadySelected(game.playerCountries, countryCode) THEN game
          ELSE handleCountrySelect(game, countryCode)
  /\ output' = [called |-> TRUE, layer |-> layer, index |-> i,
                flip |-> IF "flip" \in DOMAIN output THEN ~output.flip ELSE TRUE]
  /\ UNCHANGED <<countries, useDataDrivenRegions, regionBoundaries,
                 selectedDatasets, heightFilter, heightStats, statsGetter,
                 fetchPending, globalDataCache, input,
                 hoverD, mounted, dataLoading, dataStatus, clock, init, alliances>>

\* The phase buttons of the debug panel
setGamePhase(phase) ==
  /\ mounted
  /\ game' = [game EXCEPT !.gamePhase = phase]
  /\ UNCHANGED <<countries, useDataDrivenRegions, regionBoundaries,
                 selectedDatasets, heightFilter, heightStats, statsGetter,
                 fetchPending, globalDataCache, input, output,
                 hoverD, mounted, dataLoading, dataStatus, clock, init, alliances>>

resetGame ==
  /\ mounted
  /\ game' = [game EXCEPT !.selectedCountries = <<>>,
                          !.playerCountries = [player1 |-> <<>>, player2 |-> <<>>],
                          !.currentPlayer = 0,
                          !.gamePhase = "country_selection"]
  /\ UNCHANGED <<countries, useDataDrivenRegions, regionBoundaries,
                 selectedDatasets, heightFilter, heightStats, statsGetter,
                 fetchPending, globalDataCache, input, output,
                 hoverD, mounted, dataLoading, dataStatus, clock, init, alliances>>

\* One feature per code, and a second feature with the first code
GameCollection ==
  Append([i \in 1..MaxGameCodes |-> ValuedFeature(i, 1)], ValuedFeature(1, 2))

Layers == {"surface", "elevated"}

PhaseButtons == {"country_selection", "bidding"}

InitGame == input = GameCollection /\ InitialState(TRUE)

NextGame ==
  \/ LoadCountries
  \/ \E layer \in Layers, i \in DOMAIN countries : handleCountryClick(layer, i)
  \/ \E phase \in PhaseButtons : setGamePhase(phase)
  \/ resetGame

SpecGame == InitGame /\ [][NextGame]_vars

----------------------------------------------------------------------------
(* The alliance panel *)

Players == {"player1", "player2"}

\* Remove the k-th element
RemoveAt(s, k) == [j \in 1..(Len(s) - 1) |-> IF j < k THEN s[j] ELSE s[j + 1]]

\* The action the two buttons of a player pass to handleAllianceAction:
\* the left one 'rescind' once the alliance is sent, the right one 'send'
\* before it is, 'player' otherwise.
ButtonAction(button, isAllianceSent) ==
  IF button = "left" THEN (IF isAllianceSent THEN "rescind" ELSE "player")
  ELSE (IF ~isAllianceSent THEN "send" ELSE "player")

\* handleAllianceAction(playerId, action) for a click on one of the buttons
handleAllianceAction(playerId, button) ==
  LET a == alliances[playerId]
      action == ButtonAction(button, a.sent)
      wasAllianceSent == a.sent
  IN /\ mounted
     /\ action = "send" => Len(a.timers) < MaxTimers
     /\ alliances' =
          IF action \notin {"send", "rescind"} THEN alliances
          ELSE IF action = "send" /\ ~wasAllianceSent
          THEN [alliances EXCEPT ![playerId] =
                  [sent |-> ~a.sent, display |-> TRUE,
                   timers |-> Append(a.timers, AllianceDelay), sinceSend |-> 0]]
          ELSE IF action = "rescind" /\ wasAllianceSent
          THEN [alliances EXCEPT ![playerId] =
                  [a EXCEPT !.sent = ~a.sent, !.display = FALSE]]
          ELSE [alliances EXCEPT ![playerId] = [a EXCEPT !.sent = ~a.sent]]
     /\ UNCHANGED <<countries, useDataDrivenRegions, regionBoundaries,
                    selectedDatasets, heightFilter, heightStats, statsGetter,
                    fetchPending, globalDataCache, input, output,
                    hoverD, mounted, dataLoading, dataStatus, clock, init, game>>

\* The callback of a 5 second setTimeout whose delay has elapsed
TimerFires(playerId) ==
  LET a == alliances[playerId]
  IN /\ \E k \in DOMAIN a.timers : a.timers[k] = 0
     /\ alliances' =
          [alliances EXCEPT ![playerId] =
             [a EXCEPT !.display = FALSE,
                       !.timers = RemoveAt(@, CHOOSE k \in DOMAIN @ : @[k] = 0)]]
     /\ UNCHANGED <<countries, useDataDrivenRegions, regionBoundaries,
                    selectedDatasets, heightFilter, heightStats, statsGetter,
                    fetchPending, globalDataCache, input, output,
                    hoverD, mounted, dataLoading, dataStatus, clock, init, game>>

\* One second passes; a timer that is due runs first.
SecondPasses ==
  /\ \A p \in Players : \A k \in DOMAIN alliances[p].timers : alliances[p].timers[k] > 0
  /\ \E p \in Players : alliances[p].timers # <<>> \/ alliances[p].sinceSend < AllianceDelay
  /\ alliances' =
       [p \in Players |->
          [alliances[p] EXCEPT
             !.timers = [k \in DOMAIN @ |-> @[k] - 1],
             !.sinceSend = IF @ < AllianceDelay THEN @ + 1 ELSE @]]
  /\ UNCHANGED <<countries, useDataDrivenRegions, regionBoundaries,
                 selectedDatasets, heightFilter, heightStats, statsGetter,
                 fetchPending, globalDataCache, input, output,
                 hoverD, mounted, dataLoading, dataStatus, clock, init, game>>

Buttons == {"left", "right"}

InitAlliance == input = <<>> /\ InitialState(FALSE)

NextAlliance ==
  \/ \E p \in Players, b \in Buttons : handleAllianceAction(p, b)
  \/ \E p \in Players : TimerFires(p)
  \/ SecondPasses

SpecAlliance == InitAlliance /\ [][NextAlliance]_vars

----------------------------------------------------------------------------
(* Claims on classification *)

\* Positions of s that start a maximal run of characters of Cls,
\* or hold a character outside the class.
KeptPositions(s, Cls) ==
  {i \in DOMAIN s : s[i] \notin Cls \/ i = 1 \/ s[i - 1] \notin Cls}

\* s with every maximal run of Cls characters collapsed to one underscore.
Collapse(s, Cls) ==
  LET kept == KeptPositions(s, Cls)
      nth(k) == CHOOSE i \in kept : Cardinality({j \in kept : j < i}) = k - 1
  IN [k \in 1..Cardinality(kept) |->
        IF s[nth(k)] \in Cls THEN "_" ELSE s[nth(k)]]

AlphaNumeric == Range(UpperCase) \cup Range(LowerCase) \cup Digits

\* Every character the generated texts can hold that is not alphanumeric.
NonAlphaNumeric == (SlugAlphabet \cup {"_", "\t", "\n"}) \ AlphaNumeric

SlugContinents == {Europe, Africa, Asia, Oceania}

\* "<continent>_<subregion>" of the input, before lower-casing
ContinentSubregion(f) ==
  LET sub == IF f.properties.SUBREGION # <<>> THEN f.properties.SUBREGION
             ELSE IF f.properties.REGION_UN # <<>> THEN f.properties.REGION_UN
             ELSE Unknown
  IN f.properties.CONTINENT \o <<"_">> \o sub

DerivedSlugCall ==
  /\ output.called /\ output.dataDriven
  /\ input.hasProps /\ input.properties.CONTINENT \in SlugContinents

\* C6: getCountryRegion returns a non-empty region key for every feature,
\* with or without continent, subregion and code fields, in both modes.
C6_NonEmptyKey == output.called => output.key # <<>>

C6_Witness ==
  /\ output.called /\ output.dataDriven
  /\ input.hasProps
  /\ input.properties.CONTINENT = <<>> /\ input.properties.SUBREGION = <<>>
  /\ input.properties.ISO_A2 = Undefined

\* C7 as stated: for Europe, Africa, Asia and Oceania the derived key is
\* "<continent>_<subregion>" lower-cased with every run of non-alphanumeric
\* characters collapsed to one underscore.
C7_AnyNonAlphaNumeric ==
  DerivedSlugCall =>
    output.key = Collapse(toLowerCase(ContinentSubregion(input)), NonAlphaNumeric)

\* The characters the amended statement names
WhitespaceAmpersand == {" ", "\t", "\n", "&"}

\* C7 amended: only runs of whitespace and ampersands are collapsed to one
\* underscore; every other character (hyphen, underscore) is kept as it is.
C7_WhitespaceAmpersand ==
  DerivedSlugCall =>
    output.key = Collapse(toLowerCase(ContinentSubregion(input)), WhitespaceAmpersand)

C7_Witness ==
  /\ DerivedSlugCall
  /\ input.properties.SUBREGION = <<"A", "&">>

\* Regions of the table that list a code
RegionsListing(code) ==
  {i \in DOMAIN REGIONS : \E k \in DOMAIN REGIONS[i].countries :
                             REGIONS[i].countries[k] = code}

ListedCodes == UNION {Range(REGIONS[i].countries) : i \in DOMAIN REGIONS}

\* Number of entries of the first n country lists; it equals the number of
\* distinct codes exactly when no code is listed twice.
RECURSIVE TotalListed(_)
TotalListed(n) == IF n = 0 THEN 0 ELSE Len(REGIONS[n].countries) + TotalListed(n - 1)

\* C8: every code of REGIONS is listed by exactly one region; static
\* classification of a feature with that code returns that region, and a
\* feature whose code is not in the table classifies as "unknown".
C8_StaticPartition ==
  /\ TotalListed(Len(REGIONS)) = Cardinality(ListedCodes)
  /\ (output.called /\ ~output.dataDriven) =>
       LET code == getCountryCode(input)
       IN IF code \in ListedCodes
          THEN /\ Cardinality(RegionsListing(code)) = 1
               /\ \A i \in RegionsListing(code) : output.key = REGIONS[i].name
          ELSE output.key = unknown

C8_Witness ==
  /\ output.called /\ ~output.dataDriven
  /\ getCountryCode(input) = "US"
  /\ output.key = north_america

----------------------------------------------------------------------------
(* Claims on boundary extraction *)

\* C1: every BoundarySegment of regionBoundaries, from either generator,
\* carries exactly two region keys that differ and at least 2 points.
C1_SegmentShape ==
  \A k \in DOMAIN regionBoundaries :
    /\ Len(regionBoundaries[k].regions) = 2
    /\ regionBoundaries[k].regions[1] # regionBoundaries[k].regions[2]
    /\ Len(regionBoundaries[k].coordinates) >= 2

HasSegment == \E k \in DOMAIN regionBoundaries : TRUE

C1_Witness ==
  /\ useDataDrivenRegions
  /\ HasSegment
  /\ \E k \in DOMAIN regionBoundaries : Len(regionBoundaries[k].coordinates) >= 3

\* Coordinate points of ring r that lie within the tolerance of a point of s
NearPoints(r, s) ==
  {p \in Range(r) : \E q \in Range(s) : DistSq(p, q) < Tolerance * Tolerance}

\* The two rings share exactly one coordinate point within the tolerance.
ShareOnePoint(r, s) ==
  Cardinality(NearPoints(r, s)) = 1 /\ Cardinality(NearPoints(s, r)) = 1

SegmentFor(f, g) ==
  \E k \in DOMAIN regionBoundaries :
    \/ regionBoundaries[k].countries = <<getCountryCode(f), getCountryCode(g)>>
    \/ regionBoundaries[k].countries = <<getCountryCode(g), getCountryCode(f)>>

\* C2: two loaded countries in different regions whose rings (closed or
\* not) share exactly one coordinate point within the tolerance get no
\* BoundarySegment.
C2_OnePointNoSegment ==
  \A a, b \in DOMAIN countries :
    (/\ a < b
     /\ getCountryRegion(countries[a], useDataDrivenRegions)
          # getCountryRegion(countries[b], useDataDrivenRegions)
     /\ ShareOnePoint(extractCoordinates(countries[a].geometry),
                      extractCoordinates(countries[b].geometry)))
    => ~SegmentFor(countries[a], countries[b])

\* Features whose region key differs between the two modes
ChangesKey(f) == getCountryRegion(f, TRUE) # getCountryRegion(f, FALSE)

ModeToggled ==
  useDataDrivenRegions' # useDataDrivenRegions /\ Len(countries) > 0

\* C9 as stated: after the mode is toggled and boundaries are recomputed, no
\* BoundarySegment references the old region key of a feature whose key
\* changed.
C9_OldKeyGone ==
  [][ModeToggled =>
       \A i \in DOMAIN countries :
         ChangesKey(countries[i]) =>
           \A k \in DOMAIN regionBoundaries' :
             getCountryRegion(countries[i], useDataDrivenRegions)
               \notin Range(regionBoundaries'[k].regions)]_vars

ModeType(dataDriven) ==
  IF dataDriven THEN "data_driven_boundary" ELSE "manual_boundary"

\* The segment is one the given mode produces for two loaded features.
SegmentOfMode(seg, dataDriven) ==
  /\ seg.type = ModeType(dataDriven)
  /\ \E a, b \in DOMAIN countries :
       /\ seg.countries = <<getCountryCode(countries[a]), getCountryCode(countries[b])>>
       /\ seg.regions = <<getCountryRegion(countries[a], dataDriven),
                          getCountryRegion(countries[b], dataDriven)>>

\* C9 amended: after the mode is toggled and boundaries are recomputed, no
\* segment computed under the old mode remains; every segment carries the
\* new mode's type tag and the region keys its two countries have under the
\* new mode (the old key string itself can still occur, as the new key of
\* another feature).
C9_OldSegmentsGone ==
  [][ModeToggled =>
       \A k \in DOMAIN regionBoundaries' :
         /\ SegmentOfMode(regionBoundaries'[k], useDataDrivenRegions')
         /\ \A m \in DOMAIN regionBoundaries :
              regionBoundaries[m] # regionBoundaries'[k]]_vars

\* Toggled to derived mode, a loaded feature changed its key and a segment
\* of the new mode references that feature's old (static) key.
C9_Witness ==
  /\ useDataDrivenRegions
  /\ \E i \in DOMAIN countries :
       /\ ChangesKey(countries[i])
       /\ \E k \in DOMAIN regionBoundaries :
            getCountryRegion(countries[i], FALSE) \in Range(regionBoundaries[k].regions)

----------------------------------------------------------------------------
(* Claims on height normalisation *)

\* The pre-hover height of loaded feature i under the current filter
HeightOf(i) == calculatedHeight(countries[i], heightFilter, heightStats, globalDataCache)

ValueOf(i) == heightGetter(heightFilter, countries[i], globalDataCache)

FilterActive == heightFilter # "none" /\ Len(countries) > 0

\* C3: with max > min, every feature whose value is positive and not an
\* outlier has baseHeight <= height <= baseHeight + heightMultiplier before
\* the hover adjustment.
C3_HeightInBand ==
  FilterActive =>
    \A i \in DOMAIN countries :
      (/\ heightStats.max > heightStats.min
       /\ ValueOf(i) > 0
       /\ ValueOf(i) \notin Range(heightStats.outliers))
      => ~HeightOutsideBand(HeightOf(i))

StatsComputed == FilterActive /\ Len(heightStats.values) > 0

\* C4: for a non-empty set of positive values, 0.3 * max <= adjustedMax <=
\* 0.8 * max when the crusher condition holds; otherwise adjustedMax = max
\* and the outlier set is empty.
C4_AdjustedMaxBounds ==
  StatsComputed =>
    IF heightStats.isExtremeCrusher
    THEN /\ RatLe(Rat(3 * heightStats.max, 10), heightStats.adjustedMax)
         /\ RatLe(heightStats.adjustedMax, Rat(8 * heightStats.max, 10))
    ELSE /\ heightStats.adjustedMax = Rat(heightStats.max, 1)
         /\ heightStats.outliers = <<>>

\* A crusher whose candidate max(p95 * 1.5, mean * 3, median * 4) is above
\* 0.8 * max, so that the upper clamp acts.
C4_Witness ==
  /\ StatsComputed
  /\ heightStats.isExtremeCrusher
  /\ heightStats.adjustedMax = Rat(8 * heightStats.max, 10)
  /\ RatLt(Rat(8 * heightStats.max, 10),
           Rat(4 * heightStats.median.n, heightStats.median.d))

ScenarioA ==
  /\ FilterActive
  /\ Len(countries) = 2
  /\ heightStats.values = <<100, 100000000>>

\* C5 as stated: for the two values 100 and 100,000,000 the crusher
\* condition triggers, the larger value is an outlier with a normalised
\* height above 1.0 and the smaller value's normalised height is near 0.
C5_ScenarioCrusher ==
  ScenarioA =>
    /\ heightStats.isExtremeCrusher
    /\ 100000000 \in Range(heightStats.outliers)
    /\ \A i \in DOMAIN countries :
         ValueOf(i) = 100000000 =>
           /\ HeightOf(i).normalized.kind = "number"
           /\ RatLt(Rat(1, 1), HeightOf(i).normalized.q)
    /\ \A i \in DOMAIN countries :
         ValueOf(i) = 100 => HeightOf(i).normalized.q = Rat(0, 1)

\* C5 amended: for the two values 100 and 100,000,000 the crusher condition
\* does not trigger (max is its own p95 and Q3, max / mean and max / median
\* are about 2), the outlier set is empty, adjustedMax = max, the larger
\* value's normalised height is exactly 1.0 and the smaller value's is 0.
C5_ScenarioNoCrusher ==
  ScenarioA =>
    /\ ~heightStats.isExtremeCrusher
    /\ heightStats.outliers = <<>>
    /\ heightStats.adjustedMax = Rat(100000000, 1)
    /\ \A i \in DOMAIN countries :
         ValueOf(i) = 100000000 =>
           /\ HeightOf(i).normalized.kind = "number"
           /\ HeightOf(i).normalized.q = Rat(1, 1)
           /\ ~HeightOf(i).normalized.overMax
    /\ \A i \in DOMAIN countries :
         ValueOf(i) = 100 =>
           /\ HeightOf(i).normalized.kind = "number"
           /\ HeightOf(i).normalized.q = Rat(0, 1)

C5_Witness ==
  /\ ScenarioA
  /\ heightFilter = "gdp"
  /\ \E i \in DOMAIN countries : ValueOf(i) = 100000000
  /\ \E i \in DOMAIN countries : ValueOf(i) = 100

----------------------------------------------------------------------------
(* Claims on dataset selection *)

\* C10: no disabled dataset is in selectedDatasets or is the active
\* heightFilter, and heightStats never reads a disabled dataset's getter.
C10_DisabledExcluded ==
  /\ \A k \in DOMAIN selectedDatasets : ~IsDisabled(selectedDatasets[k])
  /\ ~IsDisabled(heightFilter)
  /\ statsGetter # "none" => statsGetter \in HEIGHT_GETTERS

\* A dataset was added by handleDatasetSelect, a filter of a dataset that
\* was then deselected is active and its getter fed heightStats.
C10_Witness ==
  /\ Len(selectedDatasets) > 0
  /\ selectedDatasets[Len(selectedDatasets)] \in ClickIds
  /\ heightFilter # "none"
  /\ heightFilter \notin Range(selectedDatasets)
  /\ statsGetter = heightFilter

----------------------------------------------------------------------------
(* Claims on hover, country codes and geometry *)

\* C12: the hover adjustment of an elevated feature is the largest delta
\* for the hovered feature when its region matches the hovered region, the
\* middle delta for another feature of the hovered region, the smallest
\* delta for the hovered feature without a region match and 0 otherwise,
\* with largest > middle > smallest > 0.
C12_HoverDeltas ==
  \A i \in DOMAIN countries :
    LET delta == hoverAdjustment(i, hoverD, countries, useDataDrivenRegions)
        isHovered == hoverD = i
        regionMatch ==
          /\ hoverD # 0
          /\ getCountryRegion(countries[i], useDataDrivenRegions)
               = getCountryRegion(countries[hoverD], useDataDrivenRegions)
        largest == hoverAdjustment(hoverD, hoverD, countries, useDataDrivenRegions)
    IN /\ isHovered /\ regionMatch => delta = 50
       /\ ~isHovered /\ regionMatch => delta = 20 /\ largest > delta /\ delta > 10
       /\ isHovered /\ ~regionMatch => delta = 10
       /\ ~isHovered /\ ~regionMatch => delta = 0

\* One feature is hovered, the other is in its region; after a toggle of
\* the mode a hovered feature with the other outside its region exists too.
C12_Witness ==
  /\ hoverD # 0
  /\ Len(countries) = 2
  /\ \E i \in DOMAIN countries :
       /\ i # hoverD
       /\ hoverAdjustment(i, hoverD, countries, useDataDrivenRegions) = 20
  /\ hoverAdjustment(hoverD, hoverD, countries, useDataDrivenRegions) = 50

\* The override table as the claim reads it: a name has an override or not
HasOverride(n) == MANUAL_COUNTRY_MAPPING(n) # Undefined

\* C18: getCountryCode returns the primary code when it is present and is
\* neither '-99' nor 'n/a'; otherwise the override of ADMIN, else the
\* override of NAME, else the raw code; a feature without a property bag
\* gets a result too.
C18_CodePriority ==
  output.called =>
    LET iso == IF input.hasProps THEN input.properties.ISO_A2 ELSE Undefined
        admin == IF input.hasProps THEN input.properties.ADMIN ELSE Undefined
        name == IF input.hasProps THEN input.properties.NAME ELSE Undefined
    IN IF iso \notin {Undefined, "", "-99", "n/a"} THEN output.code = iso
       ELSE IF HasOverride(admin) THEN output.code = MANUAL_COUNTRY_MAPPING(admin)
       ELSE IF HasOverride(name) THEN output.code = MANUAL_COUNTRY_MAPPING(name)
       ELSE output.code = iso

C18_Witness ==
  /\ output.called
  /\ input.hasProps
  /\ input.properties.ISO_A2 = "n/a"
  /\ input.properties.ADMIN = "Atlantis"
  /\ input.properties.NAME = "Northern Cyprus"
  /\ output.code = "XN"

\* The first part of a multi-part geometry with the most outer-ring vertices
LargestPart(polys) ==
  CHOOSE k \in DOMAIN polys :
    /\ \A j \in DOMAIN polys : Len(polys[j][1]) <= Len(polys[k][1])
    /\ \A j \in 1..(k - 1) : Len(polys[j][1]) < Len(polys[k][1])

InSegment(f) ==
  \E k \in DOMAIN regionBoundaries :
    getCountryCode(f) \in Range(regionBoundaries[k].countries)

\* C19: extractCoordinates returns the outer ring of a single polygon, the
\* outer ring of the earliest part with the most outer-ring vertices of a
\* multi-part polygon and an empty ring for any other type; a feature of
\* another type is in no BoundarySegment.
C19_RingOfGeometry ==
  \A i \in DOMAIN countries :
    LET g == countries[i].geometry
    IN CASE g.type = "Polygon" -> extractCoordinates(g) = g.coordinates[1]
         [] g.type = "MultiPolygon" ->
              extractCoordinates(g) = g.coordinates[LargestPart(g.coordinates)][1]
         [] OTHER -> extractCoordinates(g) = <<>> /\ ~InSegment(countries[i])

\* A multi-part polygon with two largest parts that differ, next to a
\* feature that is a point.
C19_Witness ==
  /\ Len(countries) = 2
  /\ \E i \in DOMAIN countries :
       LET g == countries[i].geometry
       IN /\ g.type = "MultiPolygon"
          /\ Len(g.coordinates) = 2
          /\ Len(g.coordinates[1][1]) = Len(g.coordinates[2][1])
          /\ g.coordinates[1][1] # g.coordinates[2][1]
  /\ \E i \in DOMAIN countries : countries[i].geometry.type = "Point"

\* C20: in findSharedBoundary a ring-B index is matched at most once, so
\* the shared points are never more than the ring-B points, and every
\* shared point is a point of ring A.
C20_MatchedOnce ==
  \A a, b \in DOMAIN countries :
    LET ringA == extractCoordinates(countries[a].geometry)
        ringB == extractCoordinates(countries[b].geometry)
        sharedPoints == findSharedBoundary(ringA, ringB)
    IN /\ Len(sharedPoints) <= Len(ringB)
       /\ Range(sharedPoints) \subseteq Range(ringA)

\* Ring A has more points than ring B and every ring-B point is matched.
C20_Witness ==
  \E a, b \in DOMAIN countries :
    LET ringA == extractCoordinates(countries[a].geometry)
        ringB == extractCoordinates(countries[b].geometry)
    IN /\ Len(ringA) > Len(ringB)
       /\ Len(ringB) >= 1
       /\ Len(findSharedBoundary(ringA, ringB)) = Len(ringB)

----------------------------------------------------------------------------
(* Claims on failing accessors *)

\* The accessor of the active dataset throws, returns NaN or returns a
\* negative number on the feature.
AccessorFails(f) ==
  \/ ~f.hasProps
  \/ f.hasProps /\ f.properties.GDP_MD_EST = NotANumber
  \/ f.hasProps /\ f.properties.GDP_MD_EST < 0

\* The collection without the features whose accessor fails
WithoutFailing(features) == SelectSeq(features, LAMBDA f : ~AccessorFails(f))

\* C11: for a feature whose accessor throws, returns NaN or returns a
\* negative number the wrapped accessor yields 0, the feature contributes
\* nothing to HeightStatistics and its pre-hover height is baseHeight; the
\* heights of the other features are computed as without it.
C11_FailingAccessor ==
  output.called =>
    LET others == WithoutFailing(input)
        statsOfOthers == heightStatsOf(others, output.filter, globalDataCache)
    IN /\ output.stats = statsOfOthers
       /\ \A i \in DOMAIN input :
            IF AccessorFails(input[i])
            THEN /\ output.values[i] = 0
                 /\ output.heights[i].normalized.kind = "none"
            ELSE output.heights[i] =
                   calculatedHeight(input[i], output.filter, statsOfOthers,
                                    globalDataCache)

\* A feature whose accessor throws, one whose accessor returns NaN and one
\* with a positive value
C11_Witness ==
  /\ output.called
  /\ Len(input) = 3
  /\ ~input[1].hasProps
  /\ input[2].hasProps /\ input[2].properties.GDP_MD_EST = NotANumber
  /\ input[3].hasProps /\ input[3].properties.GDP_MD_EST = 3
  /\ output.stats.values = <<3>>

----------------------------------------------------------------------------
(* Claims on the crusher condition *)

\* max > Q3 + 2.5 * IQR for the list held by heightStats
AboveOutlierThreshold ==
  LET values == heightStats.values
      q1 == values[((Len(values) * 25) \div 100) + 1]
      q3 == values[((Len(values) * 75) \div 100) + 1]
  IN 2 * heightStats.max > 2 * q3 + 5 * (q3 - q1)

\* max / d > k for a rational d > 0
RatioAbove(d, k) == heightStats.max * d.d > k * d.n

P95 ==
  LET values == heightStats.values
  IN Rat(values[((Len(values) * 95) \div 100) + 1], 1)

AtLeastOne(d) == IF d.n < TenthsPerUnit * d.d THEN Rat(TenthsPerUnit, 1) ELSE d

----------------------------------------------------------------------------
(* Claims on recomputation, teardown and the dataset cache *)

\* C14: recomputing HeightStatistics and the BoundarySegment list for the
\* feature set, active dataset and classification mode they were computed
\* for yields what the state holds, whatever happened since.
C14_RecomputeIdentical ==
  /\ heightStats = heightStatsOf(countries, heightFilter, globalDataCache)
  /\ regionBoundaries =
       boundaryEffect(countries, useDataDrivenRegions, regionBoundaries)

\* C15: while the view is torn down no state of GlobeWrapper or App is
\* updated by a fetch that completes.
C15_NoUpdateAfterTeardown ==
  [][(~mounted /\ ~mounted') =>
       UNCHANGED <<countries, heightStats, regionBoundaries,
                   dataLoading, dataStatus>>]_vars

LoadFinished == dataLoading = FALSE /\ init.pc = "idle"

FailedTables ==
  {n \in DOMAIN globalDataCache.worldBank : globalDataCache.worldBank[n] = <<>>}

\* C16: when a dataset fetch failed, the cache holds an empty table for
\* it, loading has finished and the status does not report a successful
\* load.
C16_DegradedStatus ==
  (LoadFinished /\ init.failures > 0) =>
    /\ FailedTables # {} \/ globalDataCache.restCountries = <<>>
    /\ dataStatus # "Data loaded successfully"

\* A loadGlobalData step: initializeGlobalData has just been called.
CallStep == init.pc = "idle" /\ init'.pc # "idle"

Populated == DOMAIN globalDataCache.worldBank # {}

----------------------------------------------------------------------------
(* Claims on the order of boundary points and on the segments of a result *)

\* The orders in which the positions 1..n can be placed
Placements(n) == {f \in [1..n -> 1..n] : \A i, j \in 1..n : i # j => f[i] # f[j]}

\* f places the points of p in the order s: it starts at the first point
\* and every further point is, among the positions not yet placed, the
\* earliest one at minimal distance from the point placed before it.
NearestChain(p, s, f) ==
  /\ f[1] = 1
  /\ \A k \in 1..Len(p) : s[k] = p[f[k]]
  /\ \A k \in 2..Len(p) :
       LET left == (1..Len(p)) \ {f[i] : i \in 1..(k - 1)}
       IN \A j \in left :
            /\ DistSq(s[k - 1], p[f[k]]) <= DistSq(s[k - 1], p[j])
            /\ j < f[k] => DistSq(s[k - 1], p[f[k]]) < DistSq(s[k - 1], p[j])

\* C21: sortBoundaryPoints returns a permutation of its input that starts
\* with the first point; each further point is, among the points not yet
\* placed, at minimal distance from the previous one, the earliest on ties.
C21_NearestNeighbourChain ==
  output.called =>
    /\ Len(output.sorted) = Len(input)
    /\ \E f \in Placements(Len(input)) : NearestChain(input, output.sorted, f)

\* Four points sorted into another order, with a tie at the second place
C21_Witness ==
  /\ output.called
  /\ Len(input) = MaxSortLen
  /\ output.sorted # input
  /\ DistSq(input[1], input[2]) = DistSq(input[1], input[3])
  /\ input[2] # input[3]
  /\ output.sorted[2] = input[2]

RingOf(i) == extractCoordinates(countries[i].geometry)

RegionOf(i) == getCountryRegion(countries[i], useDataDrivenRegions)

\* Two loaded features in different regions, each ring having at least 2
\* coordinate points within the tolerance of the other ring
QualifyingPair(a, b) ==
  /\ RegionOf(a) # RegionOf(b)
  /\ Cardinality(NearPoints(RingOf(a), RingOf(b))) >= 2
  /\ Cardinality(NearPoints(RingOf(b), RingOf(a))) >= 2

QualifyingPairs ==
  {t \in (DOMAIN countries) \X (DOMAIN countries) : t[1] < t[2] /\ QualifyingPair(t[1], t[2])}

\* Segment k carries the region keys and country codes of features a and b
TaggedWith(k, a, b) ==
  LET seg == regionBoundaries[k]
      ca == getCountryCode(countries[a])
      cb == getCountryCode(countries[b])
  IN \/ seg.countries = <<ca, cb>> /\ seg.regions = <<RegionOf(a), RegionOf(b)>>
     \/ seg.countries = <<cb, ca>> /\ seg.regions = <<RegionOf(b), RegionOf(a)>>

\* C22: the extraction result holds one BoundarySegment for each unordered
\* pair of features in different regions whose rings share at least 2
\* points and none for any other pair, each tagged with the region keys and
\* country codes of its pair, and no two segments have the same id.
C22_OneSegmentPerPair ==
  Len(countries) > 0 =>
    /\ Len(regionBoundaries) = Cardinality(QualifyingPairs)
    /\ \A t \in QualifyingPairs :
         \E k \in DOMAIN regionBoundaries : TaggedWith(k, t[1], t[2])
    /\ \A k \in DOMAIN regionBoundaries :
         \E t \in QualifyingPairs : TaggedWith(k, t[1], t[2])
    /\ \A k, m \in DOMAIN regionBoundaries :
         k # m => regionBoundaries[k].id # regionBoundaries[m].id

\* C25: for the rings of any two loaded features, findSharedBoundary has at
\* least 2 points with one ring as ring A if and only if it has at least 2
\* points with the other ring as ring A.
C25_RingOrderIrrelevant ==
  \A a, b \in DOMAIN countries :
    (Len(findSharedBoundary(RingOf(a), RingOf(b))) >= 2)
      <=> (Len(findSharedBoundary(RingOf(b), RingOf(a))) >= 2)

----------------------------------------------------------------------------
(* Claims on the adaptive exponent and the smoothing *)

InInterval(x, lo, hi) == RatLe(lo, x) /\ RatLe(x, hi)

ExponentInBands(x) ==
  \/ InInterval(x, Rat(3, 10), Rat(95, 100))
  \/ InInterval(x, Rat(11, 10), Rat(35, 10))

P90(values) == values[((Len(values) * 90) \div 100) + 1]

\* C23 as stated: the exponent finally applied lies in [0.3, 0.95] or in
\* [1.1, 3.5], and is at most 0.6 whenever max / p90 > 5.0.
C23_ExponentBands ==
  output.called =>
    /\ ExponentInBands(output.exponent)
    /\ input.values[Len(input.values)] > 5 * P90(input.values)
         => RatLe(output.exponent, Rat(6, 10))

\* C23 amended: the exponent finally applied lies in [0.3, 0.95] or in
\* [1.1, 3.5], and is at most 0.6 whenever max / max(p90, 0.001) > 5.0.
C23_ExponentBandsFlooredRatio ==
  output.called =>
    /\ ExponentInBands(output.exponent)
    /\ (/\ input.values[Len(input.values)] > 5 * P90(input.values)
        /\ 1000 * input.values[Len(input.values)] > 5 * input.unit)
         => RatLe(output.exponent, Rat(6, 10))

\* A distribution with max / p90 > 5.0 whose exponent was capped
C23_Witness ==
  /\ output.called
  /\ input.unit = 1
  /\ input.values[Len(input.values)] > 5 * P90(input.values)
  /\ output.exponent = Rat(6, 10)

\* C24: the smoothing preserves order in expansive and in compressive mode:
\* for post-exponent values a <= b of one dataset, smoothed(a) <= smoothed(b).
C24_SmoothingMonotone ==
  output.called => RatLe(output.a, output.b)

\* C26: whenever the outlier-crusher condition holds for the computed
\* statistics, the maximum value is one of the outliers.
C26_MaxAmongOutliers ==
  (Len(heightStats.values) > 0 /\ heightStats.isExtremeCrusher)
    => heightStats.max \in Range(heightStats.outliers)

----------------------------------------------------------------------------
(* Claims on the selection, the cache and the game state *)

\* C27: after any sequence of dataset selections, deselections and height
\* filter clicks, heightFilter is 'none' or an id in selectedDatasets.
C27_FilterAmongSelected ==
  heightFilter = "none" \/ heightFilter \in Range(selectedDatasets)

\* The positive values the accessor of the active dataset returns now
CurrentValues ==
  {heightGetter(heightFilter, countries[i], globalDataCache) : i \in DOMAIN countries}
    \ {0}

\* C28: while a dataset is active, the statistics getPolygonHeight uses are
\* those of the values the accessor currently returns for the loaded
\* features, also after the global data fetch has stored its results.
C28_StatsOfCurrentValues ==
  (heightFilter # "none" /\ Len(countries) > 0) =>
    /\ Range(heightStats.values) = CurrentValues
    /\ CurrentValues # {} => heightStats.max \in CurrentValues

----------------------------------------------------------------------------
(* Claims on the game and the alliance panel *)

NoDuplicates(s) == \A i, j \in DOMAIN s : i # j => s[i] # s[j]

HeldCount(g) == Len(g.playerCountries.player1) + Len(g.playerCountries.player2)

\* No code is held by both players or twice by one player.
HeldOnce(g) ==
  /\ Range(g.playerCountries.player1) \cap Range(g.playerCountries.player2) = {}
  /\ NoDuplicates(g.playerCountries.player1)
  /\ NoDuplicates(g.playerCountries.player2)

\* The step is a click on a polygon
ClickStep == output' # output

\* C29: after any sequence of country clicks, phase changes and resets no
\* country code is held by both players or twice by one player; a click
\* outside the country_selection phase or on a surface polygon changes
\* nothing; during country selection the current player alternates with
\* every accepted selection.
C29_SelectionSafe ==
  [][/\ HeldOnce(game')
     /\ (ClickStep /\ (game.gamePhase # "country_selection" \/ output'.layer = "surface"))
          => game' = game
     /\ HeldCount(game') > HeldCount(game)
          => /\ ClickStep
             /\ game.gamePhase = "country_selection"
             /\ game'.currentPlayer = 1 - game.currentPlayer
             /\ HeldCount(game') = HeldCount(game) + 1]_vars

\* Both players hold a code, the first player made the last selection, and
\* the last click, on the second feature of a code the second player holds,
\* was refused.
C29_Witness ==
  /\ Len(game.playerCountries.player1) = Len(game.playerCountries.player2) + 1
  /\ Len(game.playerCountries.player2) > 0
  /\ game.currentPlayer = 1
  /\ output.called
  /\ output.layer = "elevated"
  /\ output.index = MaxGameCodes + 1
  /\ getCountryCode(countries[1]) \in Range(game.playerCountries.player2)

\* C30: a player's 'Alliance Sent!' indicator is visible from a send until
\* 5 seconds after that send or until the alliance is rescinded, whichever
\* comes first, and a timer expiry leaves the alliance state alone.
C30_IndicatorFollowsLastSend ==
  [][\A p \in Players :
       /\ (alliances'[p].sent /\ alliances'[p].sinceSend < AllianceDelay)
            => alliances'[p].display
       /\ alliances'[p].display => alliances'[p].sent
       /\ Len(alliances'[p].timers) < Len(alliances[p].timers)
            => alliances'[p].sent = alliances[p].sent]_vars
====
